---- MODULE Spec2Model ----
(***************************************************************************)
(* Project Vision ingestion backend.                                       *)
(*                                                                         *)
(*   SpecPack : the sentence packing loop of ChunkingService               *)
(*              (app/chunking.py, chunk_transcript and chunk_document).    *)
(*   Spec     : the job state machine of worker.process_job (worker.py)    *)
(*              over the jobs, documents and chunks tables, driven by the  *)
(*              submission endpoint (app/api/ingest.py).                   *)
(*                                                                         *)
(* A sentence's text is modelled by its position in the sentence sequence, *)
(* a chunk's text by the sequence of the texts it joins; token counts are  *)
(* inputs (the tokenizer is an external library).                          *)
(***************************************************************************)
EXTENDS Integers, Sequences, FiniteSets, TLC

None == "None"

\* ------------------------------------------------------------------------
\* Bounds of the packer inputs
\* ------------------------------------------------------------------------
MaxSentences == 4
MaxTokenCount == 4
MaxMaxTokens == 4
MaxOverlapTokens == 3

\* Defaults of chunk_transcript / chunk_document
DefaultMaxTokens == 800
DefaultOverlapTokens == 100

VARIABLES
    \* ---- packer (chunking.py) ----
    kind,                 \* "transcript" (chunk_transcript) or "document" (chunk_document)
    sentence_objects,     \* the sentence list built before the packing loop
    max_tokens,
    overlap_tokens,
    i,                    \* loop index (0-based, as in the code)
    current_chunk_sents,
    current_tokens,
    chunk_idx,
    chunks,               \* the list being returned
    pk_pc,                \* "loop" | "done"
    \* ---- store (models.py) ----
    jobs,                 \* jobs table: job_id -> row
    documents,            \* documents table: document_id -> row
    chunk_table,          \* chunks table: chunk_id -> row
    \* ---- process_job invocations (worker.py) ----
    workers,              \* per invocation slot: position and locals of process_job
    \* ---- history ----
    claim_count,          \* committed pending -> processing transitions per job
    pipeline_runs,        \* invocations that started pipeline work per job
    claim_fault,          \* a storage fault hit some invocation's claim step
    \* ---- hybrid_search (search.py) ----
    indexed_chunks,       \* chunk rows as the retrieval queries see them: chunk_id -> row;
                          \* chunk ids are numbered by ascending cosine distance to the query
    ts_rank_order,        \* the chunks matching the full-text query, by descending ts_rank
    user_id,              \* arguments of hybrid_search
    limit,
    filters,
    semantic_results,     \* locals of hybrid_search
    keyword_results,
    scores,               \* dict cid -> fused score, a rational <<numerator, denominator>>
    score_keys,           \* insertion order of the dict scores
    chunks_map,
    hs_result,            \* the returned list
    hs_error,             \* exception leaving hybrid_search, or None
    hs_pc,                \* position inside hybrid_search
    \* ---- query endpoint (api/query.py) ----
    request,              \* the QueryRequest
    now,                  \* datetime.utcnow(), in hours
    start_date,           \* local of query_endpoint: [present, t]
    search_filters,       \* the dict handed to hybrid_search
    intent_calls,         \* history: calls of parse_temporal_intent by this request
    response,             \* the HTTP response
    q_pc,                 \* position inside query_endpoint
    \* ---- history of the chunk persistence step ----
    persisted,            \* the writes applied so far: document, chunks_data, embeddings
    \* ---- generate_embeddings (embeddings.py) ----
    texts,                \* the argument of the call
    batch_limit,          \* self.batch_limit
    attempt,              \* attempt number of the retry decorator, from 1
    ge_i,                 \* loop variable i of range(0, len(texts), batch_limit)
    all_embeddings,       \* local of the running attempt
    provider_calls,       \* history: the provider invocations of this call, in order
    ge_result,            \* the returned list
    ge_error,             \* the exception leaving the call, or None
    ge_caller,            \* the process_job invocation waiting for the call, 0 if none
    ge_pc,                \* "idle" | "body" | "returned" | "raised" | "delivered"
    \* ---- the invoking context (worker.py __main__, worker_service.py) ----
    context,              \* "batch" (Cloud Run Job) | "service" (Cloud Tasks request)
    job_id_str,           \* JOB_ID / payload.job_id: [given, wellformed, id]
    reported,             \* what the context answers: [done, exit_code, status_code]
    infra_fault,          \* history: engine / session setup or teardown raised
    inv_pc,               \* "idle" | "entry" | "run" | "done"
    \* ---- transcript alignment (chunking.py, chunk_transcript step 1) ----
    sentences,            \* nltk.sent_tokenize(transcript): the sentence texts
    words,                \* the timestamped word list
    current_word_idx,     \* words consumed so far
    sent_pos,             \* sentences the for loop has gone through
    al_pc                 \* "idle" | "align" | "aligned"

pack_vars == <<kind, sentence_objects, max_tokens, overlap_tokens, i,
               current_chunk_sents, current_tokens, chunk_idx, chunks, pk_pc>>

job_vars == <<jobs, documents, chunk_table, workers,
              claim_count, pipeline_runs, claim_fault>>

search_vars == <<indexed_chunks, ts_rank_order, user_id, limit, filters,
                 semantic_results, keyword_results, scores, score_keys,
                 chunks_map, hs_result, hs_error, hs_pc>>

query_vars == <<request, now, start_date, search_filters, intent_calls, response, q_pc>>

retrieval_vars == <<search_vars, query_vars>>

store_vars == <<persisted>>

embed_vars == <<texts, batch_limit, attempt, ge_i, all_embeddings, provider_calls,
                ge_result, ge_error, ge_caller, ge_pc>>

invoke_vars == <<context, job_id_str, reported, infra_fault, inv_pc>>

align_vars == <<sentences, words, current_word_idx, sent_pos, al_pc>>

vars == <<pack_vars, job_vars, retrieval_vars, store_vars, embed_vars, invoke_vars,
          align_vars>>

\* no chunk_transcript call aligning a transcript
NoAlignment ==
    /\ sentences = <<>> /\ words = <<>>
    /\ current_word_idx = 0 /\ sent_pos = 0 /\ al_pc = "idle"

\* a datetime-or-None local: absent
NoDate == [present |-> FALSE, t |-> 0]

\* no generate_embeddings call in progress
NoEmbedding ==
    /\ texts = <<>> /\ batch_limit = 0 /\ attempt = 0 /\ ge_i = 0
    /\ all_embeddings = <<>> /\ provider_calls = <<>> /\ ge_result = <<>>
    /\ ge_error = None /\ ge_caller = 0 /\ ge_pc = "idle"

NotReported == [done |-> FALSE, exit_code |-> 0, status_code |-> 0]

\* process_job invoked directly, outside a batch process or a task request
NoInvocation ==
    /\ context = "none"
    /\ job_id_str = [given |-> FALSE, wellformed |-> FALSE, id |-> 0]
    /\ reported = NotReported /\ infra_fault = FALSE /\ inv_pc = "idle"

\* no query request in progress, no replayed persistence
NoQuery ==
    /\ persisted = <<>>
    /\ NoEmbedding
    /\ NoInvocation
    /\ request = <<>> /\ now = 0 /\ start_date = NoDate
    /\ search_filters = <<>> /\ intent_calls = 0
    /\ response = [status_code |-> 0, answer |-> None] /\ q_pc = "idle"

\* no retrieval request in progress
NoRetrieval ==
    /\ NoQuery
    /\ indexed_chunks = <<>> /\ ts_rank_order = <<>>
    /\ user_id = 0 /\ limit = 0 /\ filters = <<>>
    /\ semantic_results = <<>> /\ keyword_results = <<>>
    /\ scores = <<>> /\ score_keys = <<>> /\ chunks_map = <<>>
    /\ hs_result = <<>> /\ hs_error = None /\ hs_pc = "idle"

\* ------------------------------------------------------------------------
\* Helpers
\* ------------------------------------------------------------------------
RECURSIVE SumTokens(_)
SumTokens(sents) ==
    IF sents = <<>> THEN 0
    ELSE sents[1].token_count + SumTokens(Tail(sents))

\* " ".join([s['text'] for s in sents])
JoinText(sents) == [k \in 1..Len(sents) |-> sents[k].text]

\* sentence object of chunk_transcript: text, start_time, end_time, token_count
TranscriptSentence(p, t) ==
    [text |-> p, start_time |-> 10 * p, end_time |-> 10 * p + 5, token_count |-> t]

\* sentence object of chunk_document: text, page_number, token_count
DocumentSentence(p, t) ==
    [text |-> p, page_number |-> (p + 1) \div 2, token_count |-> t]

MakeSentences(k, toks) ==
    [p \in 1..Len(toks) |->
        IF k = "transcript" THEN TranscriptSentence(p, toks[p])
                            ELSE DocumentSentence(p, toks[p])]

\* ------------------------------------------------------------------------
\* The packing loop
\* ------------------------------------------------------------------------
\* for s in reversed(current_chunk_sents): keep while the count fits, else break
RECURSIVE OverlapScan(_, _, _, _, _)
OverlapScan(sents, k, overlap_buffer, overlap_cnt, ov) ==
    IF k = 0 THEN [overlap_buffer |-> overlap_buffer, overlap_cnt |-> overlap_cnt]
    ELSE IF overlap_cnt + sents[k].token_count <= ov
         THEN OverlapScan(sents, k - 1, <<sents[k]>> \o overlap_buffer,
                          overlap_cnt + sents[k].token_count, ov)
         ELSE [overlap_buffer |-> overlap_buffer, overlap_cnt |-> overlap_cnt]

\* the scan with "<" written for "<=": a suffix that fills the budget exactly is dropped
OverlapStrict(sents, ov) == OverlapScan(sents, Len(sents), <<>>, 0, ov - 1)

\* the scan with overlap_buffer.append(s) written for insert(0, s): the carried
\* sentences come out in reverse
OverlapAppended(sents, ov) ==
    LET o == OverlapScan(sents, Len(sents), <<>>, 0, ov)
        n == Len(o.overlap_buffer)
    IN  [o EXCEPT !.overlap_buffer = [k \in 1..n |-> o.overlap_buffer[n + 1 - k]]]

Overlap(sents, ov) == OverlapScan(sents, Len(sents), <<>>, 0, ov)

TranscriptChunk(sents, idx) ==
    [text |-> JoinText(sents),
     start_time |-> sents[1].start_time,
     end_time |-> sents[Len(sents)].end_time,
     chunk_index |-> idx]

\* the page range collapsed to the first page
DocumentChunkFirstPage(sents, idx) ==
    [text |-> JoinText(sents),
     start_time |-> None,
     end_time |-> None,
     page_number |-> sents[1].page_number,
     chunk_index |-> idx,
     metadata |-> [start_page |-> sents[1].page_number,
                   end_page |-> sents[1].page_number]]

DocumentChunk(sents, idx) ==
    [text |-> JoinText(sents),
     start_time |-> None,
     end_time |-> None,
     page_number |-> sents[1].page_number,
     chunk_index |-> idx,
     metadata |-> [start_page |-> sents[1].page_number,
                   end_page |-> sents[Len(sents)].page_number]]

MakeChunk(k, sents, idx) ==
    IF k = "transcript" THEN TranscriptChunk(sents, idx) ELSE DocumentChunk(sents, idx)

\* the finalize condition of the loop body
MustFinalize(tokens, sent, sents, maxT) ==
    tokens + sent.token_count > maxT /\ sents # <<>>

\* the index counter left where it was after a chunk is emitted
NextChunkIdxStuck(idx) == idx

\* chunk_idx += 1
NextChunkIdx(idx) == idx + 1

\* one iteration of the while loop, on the loop's local state st
PackBody(k, st, sent, maxT, ov) ==
    LET fin == MustFinalize(st.current_tokens, sent, st.current_chunk_sents, maxT)
        o == Overlap(st.current_chunk_sents, ov)
        sents1 == IF fin THEN o.overlap_buffer ELSE st.current_chunk_sents
        tokens1 == IF fin THEN o.overlap_cnt ELSE st.current_tokens
    IN  [chunks |-> IF fin
                    THEN Append(st.chunks, MakeChunk(k, st.current_chunk_sents, st.chunk_idx))
                    ELSE st.chunks,
         chunk_idx |-> IF fin THEN NextChunkIdx(st.chunk_idx) ELSE st.chunk_idx,
         current_chunk_sents |-> Append(sents1, sent),
         current_tokens |-> tokens1 + sent.token_count]

\* the final flush forgotten
PackFinalDropped(k, st) == st.chunks

\* the final flush after the loop
PackFinal(k, st) ==
    IF st.current_chunk_sents # <<>>
    THEN Append(st.chunks, MakeChunk(k, st.current_chunk_sents, st.chunk_idx))
    ELSE st.chunks

PackStart ==
    [chunks |-> <<>>, chunk_idx |-> 0, current_chunk_sents |-> <<>>, current_tokens |-> 0]

RECURSIVE PackLoop(_, _, _, _, _, _)
PackLoop(k, st, sents, n, maxT, ov) ==
    IF n > Len(sents) THEN PackFinal(k, st)
    ELSE PackLoop(k, PackBody(k, st, sents[n], maxT, ov), sents, n + 1, maxT, ov)

\* the chunk list returned by chunk_transcript / chunk_document
PackSentences(k, sents, maxT, ov) == PackLoop(k, PackStart, sents, 1, maxT, ov)

\* ------------------------------------------------------------------------
\* SpecPack: the packing loop run step by step on bounded inputs
\* ------------------------------------------------------------------------
\* a sentence found by the sentence splitter has at least one token
TokenSeqs == UNION {[1..n -> 1..MaxTokenCount] : n \in 0..MaxSentences}

ExampleTokens == <<50, 60, 700, 90>>

LoopState ==
    [chunks |-> chunks, chunk_idx |-> chunk_idx,
     current_chunk_sents |-> current_chunk_sents, current_tokens |-> current_tokens]

PackInit ==
    /\ kind \in {"transcript", "document"}
    /\ \/ \E toks \in TokenSeqs :
            /\ sentence_objects = MakeSentences(kind, toks)
            /\ max_tokens \in 0..MaxMaxTokens
            /\ overlap_tokens \in 0..MaxOverlapTokens
       \/ /\ sentence_objects = MakeSentences(kind, ExampleTokens)
          /\ max_tokens = DefaultMaxTokens
          /\ overlap_tokens = DefaultOverlapTokens
    /\ i = 0
    /\ current_chunk_sents = <<>>
    /\ current_tokens = 0
    /\ chunk_idx = 0
    /\ chunks = <<>>
    /\ pk_pc = "loop"
    /\ jobs = <<>> /\ documents = <<>> /\ chunk_table = <<>>
    /\ workers = <<>>
    /\ claim_count = <<>> /\ pipeline_runs = <<>> /\ claim_fault = <<>>
    /\ NoRetrieval
    /\ NoAlignment

LoopIteration(k) ==
    /\ kind = k
    /\ pk_pc = "loop"
    /\ i < Len(sentence_objects)
    /\ LET st == PackBody(k, LoopState, sentence_objects[i + 1], max_tokens, overlap_tokens)
       IN  /\ chunks' = st.chunks
           /\ chunk_idx' = st.chunk_idx
           /\ current_chunk_sents' = st.current_chunk_sents
           /\ current_tokens' = st.current_tokens
    /\ i' = i + 1
    /\ UNCHANGED <<kind, sentence_objects, max_tokens, overlap_tokens, pk_pc, invoke_vars>>
    /\ UNCHANGED <<job_vars, retrieval_vars, store_vars, embed_vars, invoke_vars, align_vars>>

FinalChunk(k) ==
    /\ kind = k
    /\ pk_pc = "loop"
    /\ i >= Len(sentence_objects)
    /\ chunks' = PackFinal(k, LoopState)
    /\ pk_pc' = "done"
    /\ UNCHANGED <<kind, sentence_objects, max_tokens, overlap_tokens, i,
                   current_chunk_sents, current_tokens, chunk_idx, invoke_vars>>
    /\ UNCHANGED <<job_vars, retrieval_vars, store_vars, embed_vars, invoke_vars, align_vars>>

ChunkTranscriptLoop == LoopIteration("transcript")
ChunkTranscriptFinal == FinalChunk("transcript")
ChunkDocumentLoop == LoopIteration("document")
ChunkDocumentFinal == FinalChunk("document")

PackNext ==
    \/ ChunkTranscriptLoop
    \/ ChunkTranscriptFinal
    \/ ChunkDocumentLoop
    \/ ChunkDocumentFinal

SpecPack == PackInit /\ [][PackNext]_vars

\* the loop is straight-line code: it keeps running while a step is possible
SpecPackLive == PackInit /\ [][PackNext]_vars /\ WF_vars(PackNext)

\* ------------------------------------------------------------------------
\* SpecAlign: step 1 of chunk_transcript, sentences aligned with the word list
\* ------------------------------------------------------------------------
MaxAlignSentences == 3
MaxWords == 3

\* texts as sequences of characters
SentenceTexts == {<<"a">>, <<"a", " ", "B">>, <<"a", "b", " ", "c", "d">>}
WordTexts == {<<"a">>, <<"B", "c">>, <<"d", " ">>}

\* str.lower() on one character
LowerChar(c) == IF c = "B" THEN "b" ELSE c

\* text.replace(" ", "").lower()
Clean(text) ==
    LET kept == SelectSeq(text, LAMBDA c : c # " ")
    IN  [k \in 1..Len(kept) |-> LowerChar(kept[k])]

\* " ".join(parts)
RECURSIVE Join(_)
Join(parts) ==
    IF parts = <<>> THEN <<>>
    ELSE IF Len(parts) = 1 THEN parts[1]
    ELSE parts[1] \o <<" ">> \o Join(Tail(parts))

\* count_tokens(text): the encoding is a library of its own; here a token per
\* character
CountTokens(text) == Len(text)

\* WordInfo: text, start_time, end_time
MakeWords(wts) ==
    [k \in 1..Len(wts) |-> [text |-> wts[k], start_time |-> 10 * k, end_time |-> 10 * k + 5]]

\* the sentence closed only once more characters than the target are collected
MoreChars(collected_chars, target_chars) == Len(collected_chars) > Len(target_chars)

\* if len(collected_chars) >= len(target_chars): break
EnoughChars(collected_chars, target_chars) == Len(collected_chars) >= Len(target_chars)

\* the locals of one iteration of the for loop; sent_start / sent_end are <<>>
\* for None and <<t>> once set
SentenceStart(idx) ==
    [current_word_idx |-> idx, sent_start |-> <<>>, sent_end |-> <<>>,
     collected_chars |-> <<>>, sent_words |-> <<>>]

\* while current_word_idx < total_words: consume a word, break when enough
RECURSIVE WhileWords(_, _, _)
WhileWords(ws, target_chars, st) ==
    IF st.current_word_idx < Len(ws)
    THEN LET w == ws[st.current_word_idx + 1]
             st1 == [current_word_idx |-> st.current_word_idx + 1,
                     sent_start |-> IF st.sent_start = <<>> THEN <<w.start_time>>
                                    ELSE st.sent_start,
                     sent_end |-> <<w.end_time>>,
                     collected_chars |-> st.collected_chars \o Clean(w.text),
                     sent_words |-> Append(st.sent_words, w)]
         IN  IF EnoughChars(st1.collected_chars, target_chars) THEN st1
             ELSE WhileWords(ws, target_chars, st1)
    ELSE st

\* the sentence object appended for the words consumed
SentenceObject(st) ==
    LET real_sent_text == Join([k \in 1..Len(st.sent_words) |-> st.sent_words[k].text])
    IN  [text |-> real_sent_text,
         start_time |-> st.sent_start[1],
         end_time |-> st.sent_end[1],
         token_count |-> CountTokens(real_sent_text)]

AlignInit ==
    /\ \E n \in 0..MaxAlignSentences : sentences \in [1..n -> SentenceTexts]
    /\ \E n \in 0..MaxWords : \E wts \in [1..n -> WordTexts] : words = MakeWords(wts)
    /\ current_word_idx = 0
    /\ sent_pos = 0
    /\ al_pc = "align"
    /\ kind = "transcript"
    /\ sentence_objects = <<>>
    /\ max_tokens = DefaultMaxTokens
    /\ overlap_tokens = DefaultOverlapTokens
    /\ i = 0
    /\ current_chunk_sents = <<>>
    /\ current_tokens = 0
    /\ chunk_idx = 0
    /\ chunks = <<>>
    /\ pk_pc = "done"
    /\ jobs = <<>> /\ documents = <<>> /\ chunk_table = <<>>
    /\ workers = <<>>
    /\ claim_count = <<>> /\ pipeline_runs = <<>> /\ claim_fault = <<>>
    /\ NoRetrieval

\* one iteration of: for sent_text in sentences
AlignSentence ==
    /\ al_pc = "align"
    /\ sent_pos < Len(sentences)
    /\ LET sent_text == sentences[sent_pos + 1]
           st == WhileWords(words, Clean(sent_text), SentenceStart(current_word_idx))
       IN  /\ current_word_idx' = st.current_word_idx
           /\ sentence_objects' = IF st.sent_words # <<>>
                                  THEN Append(sentence_objects, SentenceObject(st))
                                  ELSE sentence_objects
    /\ sent_pos' = sent_pos + 1
    /\ UNCHANGED <<sentences, words, al_pc>>
    /\ UNCHANGED <<kind, max_tokens, overlap_tokens, i, current_chunk_sents,
                   current_tokens, chunk_idx, chunks, pk_pc>>
    /\ UNCHANGED <<job_vars, retrieval_vars, store_vars, embed_vars, invoke_vars>>

\* the for loop is over: the sentence objects go to the packing loop
AlignDone ==
    /\ al_pc = "align"
    /\ sent_pos = Len(sentences)
    /\ al_pc' = "aligned"
    /\ UNCHANGED <<sentences, words, current_word_idx, sent_pos>>
    /\ UNCHANGED <<pack_vars, job_vars, retrieval_vars, store_vars, embed_vars, invoke_vars>>

AlignNext ==
    \/ AlignSentence
    \/ AlignDone

SpecAlign == AlignInit /\ [][AlignNext]_vars

\* ------------------------------------------------------------------------
\* The store and process_job (worker.py)
\* ------------------------------------------------------------------------
NumWorkers == 2
MaxJobs == 1
CountCap == 2

Workers == 1..NumWorkers
\* an identity that no job was ever created with
MissingJobId == MaxJobs + 1

\* DocumentSourceType and IngestionStatus (models.py)
SourceTypes == {"audio", "pdf", "markdown", "text", "web", "image"}
Statuses == {"pending", "processing", "completed", "failed"}
UriSchemes == {"gs", "other"}

\* the sources jobs are submitted with: one per branch of the dispatch on
\* source type and URI scheme in process_job (audio; text / markdown / pdf
\* behind gs://; text / markdown / pdf behind another scheme; any other type)
SubmittedSources ==
    {<<"audio", "gs">>, <<"text", "gs">>, <<"text", "other">>, <<"web", "gs">>}

\* what transcription / download + extraction can deliver for a source: the
\* token counts of its sentences (nothing, one chunk's worth, two chunks' worth)
SourceContents == {<<>>, <<300>>, <<500, 400>>}

\* str(e) of the exceptions that can travel through process_job
JobNotFound == "Job not found"
DocumentNotFound == "Document not found"
NoChunks == "No chunks produced"
EmbeddingMismatch == "Embedding count mismatch"
CollaboratorError == "collaborator error"
DbError == "database error"
StoreError == "chunk store error"
FailureWriteError == "failure write error"

Get(rec, field, default) == IF field \in DOMAIN rec THEN rec[field] ELSE default

Bump(c) == IF c < CountCap THEN c + 1 ELSE c

IdleWorker ==
    [pc |-> "idle", job_id |-> MissingJobId, e |-> None, chunks_data |-> <<>>,
     embeddings |-> <<>>, session |-> <<>>, claimed |-> FALSE, start_status |-> None]

Terminal == {"returned", "raised", "raised_unsaved"}

\* positions inside the pipeline: load, extract + chunk, embed, store, final commit
PipelinePcs == {"load", "extract", "embed", "embed_check", "store", "complete"}

JobExists(j) == j \in DOMAIN jobs

\* a check-then-set claim: no row lock, so the write never waits for a competitor
NoRowLock(w, j) == FALSE

\* the row lock of an executed, not yet committed claim UPDATE
LockedByOther(w, j) ==
    \E v \in Workers \ {w} : workers[v].pc = "claim_commit" /\ workers[v].job_id = j

\* WHERE job_id written without the status condition
ClaimMatchesAnyStatus(j) == j \in DOMAIN jobs

\* WHERE Job.job_id == job_id AND Job.status == pending
ClaimMatches(j) == j \in DOMAIN jobs /\ jobs[j].status = "pending"

\* the existence check answering "found" for every identity
JobFoundAlways(j) == TRUE

\* select(Job).where(Job.job_id == job_id) ... scalar_one_or_none()
JobFound(j) == j \in DOMAIN jobs

\* the failure write without the message
FailedRowNoMessage(row, e) == [row EXCEPT !.status = "failed"]

\* values(status=failed, error_message=str(e))
FailedRow(row, e) == [row EXCEPT !.status = "failed", !.error_message = e]

\* the empty-extraction check left out
EmptyExtractionNever(chunks_data) == FALSE

\* if not chunks_data
EmptyExtraction(chunks_data) == chunks_data = <<>>

\* the handler re-raising what its own failed write raised
ReraiseSecondary(e, commit_error) == commit_error

\* the bare raise at the end of the except block: the exception being handled,
\* also after the inner except logged commit_error
Reraise(e, commit_error) == e

\* the except block without its rollback
NoRollback(session) == session

\* await session.rollback(): the uncommitted chunk writes are discarded
Rollback(session) == <<>>

\* the count check left out
CountMismatchIgnored(embeddings, chunks_data) == FALSE

\* if len(embeddings) != len(chunks_data)
CountMismatch(embeddings, chunks_data) == Len(embeddings) # Len(chunks_data)

\* dispatch on the source type and the URI scheme
ChunksFor(doc, content) ==
    IF doc.source_type = "audio"
    THEN PackSentences("transcript", MakeSentences("transcript", content),
                       DefaultMaxTokens, DefaultOverlapTokens)
    ELSE IF doc.source_type \in {"text", "markdown", "pdf"}
         THEN IF doc.source_uri = "gs"
              THEN PackSentences("document", MakeSentences("document", content),
                                 DefaultMaxTokens, DefaultOverlapTokens)
              ELSE <<>>
         ELSE <<>>

\* identities in use, in the table or in some session
UsedChunkIds ==
    DOMAIN chunk_table \cup UNION {DOMAIN workers[w].session : w \in Workers}

MaxOf(S) == IF S = {} THEN 0 ELSE CHOOSE x \in S : \A y \in S : y <= x

\* select(Chunk).where(document_id, chunk_index): identities of the stored rows
ExistingChunks(doc_id, chunk_index) ==
    {id \in DOMAIN chunk_table : /\ chunk_table[id].document_id = doc_id
                                /\ chunk_table[id].chunk_index = chunk_index}

\* identity of the row written for chunk_meta: the existing row's, else a new one
ChunkRowId(doc_id, chunk_meta, fresh_id) ==
    LET same == ExistingChunks(doc_id, chunk_meta.chunk_index)
    IN  IF same # {} THEN CHOOSE id \in same : TRUE ELSE fresh_id

\* new_chunk = Chunk(chunk_id=uuid.uuid4(), ...)
NewChunk(doc_id, chunk_meta, embedding, fresh_id) ==
    [chunk_id |-> fresh_id,
     document_id |-> doc_id,
     chunk_index |-> chunk_meta.chunk_index,
     text |-> chunk_meta.text,
     embedding |-> embedding,
     start_offset |-> Get(chunk_meta, "start_time", None),
     end_offset |-> Get(chunk_meta, "end_time", None),
     page_number |-> Get(chunk_meta, "page_number", None),
     source_ref |-> Get(chunk_meta, "metadata", <<>>)]

\* the row written for chunk_meta with its embedding: an existing row of the
\* same (document_id, chunk_index) is overwritten in place, else a row is added
ChunkRow(doc_id, chunk_meta, embedding, fresh_id) ==
    LET same == ExistingChunks(doc_id, chunk_meta.chunk_index)
    IN  IF same # {}
        THEN [chunk_table[CHOOSE id \in same : TRUE] EXCEPT
                  !.text = chunk_meta.text,
                  !.embedding = embedding,
                  !.start_offset = Get(chunk_meta, "start_time", None),
                  !.end_offset = Get(chunk_meta, "end_time", None),
                  !.page_number = Get(chunk_meta, "page_number", None)]
        ELSE NewChunk(doc_id, chunk_meta, embedding, fresh_id)

\* the store loop ending one chunk early
StoredRowsButLast(doc_id, chunks_data, embeddings, base) ==
    LET idOf(k) == ChunkRowId(doc_id, chunks_data[k], base + k)
    IN  [id \in {idOf(k) : k \in 1..(Len(chunks_data) - 1)} |->
            LET k == CHOOSE n \in 1..Len(chunks_data) : idOf(n) = id
            IN  ChunkRow(doc_id, chunks_data[k], embeddings[k], base + k)]

\* the rows the store loop leaves in the session, by identity
StoredRows(doc_id, chunks_data, embeddings, base) ==
    LET idOf(k) == ChunkRowId(doc_id, chunks_data[k], base + k)
    IN  [id \in {idOf(k) : k \in 1..Len(chunks_data)} |->
            LET k == CHOOSE n \in 1..Len(chunks_data) : idOf(n) = id
            IN  ChunkRow(doc_id, chunks_data[k], embeddings[k], base + k)]

SetWorker(w, rec) == workers' = [workers EXCEPT ![w] = rec]

Raise(w, exc) ==
    SetWorker(w, [workers[w] EXCEPT !.pc = "handler", !.e = exc])

\* ---- submission (api/ingest.py): Document and Job are created together ----
CreateJob(source_type, source_uri) ==
    /\ Cardinality(DOMAIN jobs) < MaxJobs
    /\ LET id == Cardinality(DOMAIN jobs) + 1
       IN  /\ documents' = documents @@
                  (id :> [document_id |-> id, source_type |-> source_type,
                          source_uri |-> source_uri, status |-> "pending"])
           /\ jobs' = jobs @@
                  (id :> [job_id |-> id, document_id |-> id,
                          status |-> "pending", error_message |-> None])
           /\ claim_count' = claim_count @@ (id :> 0)
           /\ pipeline_runs' = pipeline_runs @@ (id :> 0)
           /\ claim_fault' = claim_fault @@ (id :> FALSE)
    /\ UNCHANGED <<chunk_table, workers, pack_vars, retrieval_vars, store_vars, embed_vars, invoke_vars, align_vars>>

SubmitIngestionJob ==
    \E src \in SubmittedSources : CreateJob(src[1], src[2])

\* determine_source_type maps the allowed extensions; the artifact goes to gs://
UploadDocument ==
    \E src \in {s \in SubmittedSources :
                     s[1] \in {"audio", "pdf", "markdown", "text"} /\ s[2] = "gs"} :
        CreateJob(src[1], src[2])

\* ---- process_job ----
\* a trigger (subprocess, task delivery, manual run) invokes process_job(job_id);
\* each element of Workers is one invocation, numbered in the order they start
Start(w, j) ==
    /\ workers[w].pc = "idle"
    /\ \A v \in Workers : v < w => workers[v].pc # "idle"
    /\ SetWorker(w, [IdleWorker EXCEPT !.pc = "claim", !.job_id = j,
                        !.start_status = IF JobExists(j) THEN jobs[j].status ELSE None])
    /\ UNCHANGED <<jobs, documents, chunk_table, claim_count, pipeline_runs,
                   claim_fault, pack_vars, retrieval_vars, store_vars, embed_vars, invoke_vars, align_vars>>

\* session.execute(update ... where status == pending): waits for a competing
\* uncommitted claim of the same row, then reports rowcount 1 or 0
ClaimExecute(w) ==
    /\ workers[w].pc = "claim"
    /\ LET j == workers[w].job_id
       IN  /\ ~(ClaimMatches(j) /\ LockedByOther(w, j))
           /\ SetWorker(w, [workers[w] EXCEPT
                  !.pc = IF ClaimMatches(j) THEN "claim_commit" ELSE "lookup"])
    /\ UNCHANGED <<jobs, documents, chunk_table, claim_count, pipeline_runs,
                   claim_fault, pack_vars, retrieval_vars, store_vars, embed_vars, invoke_vars, align_vars>>

\* rowcount == 1 with the commit left to the end of the pipeline
ClaimCommitDeferred(w) ==
    /\ workers[w].pc = "claim_commit"
    /\ SetWorker(w, [workers[w] EXCEPT !.pc = "load", !.claimed = TRUE])
    /\ UNCHANGED <<jobs, claim_count, documents, chunk_table, pipeline_runs,
                   claim_fault, pack_vars, retrieval_vars, store_vars, embed_vars, invoke_vars, align_vars>>

\* rowcount == 1: session.commit()
ClaimCommit(w) ==
    /\ workers[w].pc = "claim_commit"
    /\ LET j == workers[w].job_id
       IN  /\ jobs' = [jobs EXCEPT ![j].status = "processing"]
           /\ claim_count' = [claim_count EXCEPT ![j] = Bump(@)]
    /\ SetWorker(w, [workers[w] EXCEPT !.pc = "load", !.claimed = TRUE])
    /\ UNCHANGED <<documents, chunk_table, pipeline_runs, claim_fault, pack_vars, retrieval_vars, store_vars, embed_vars, invoke_vars, align_vars>>

\* rowcount == 0: rollback, look the job up
Lookup(w) ==
    /\ workers[w].pc = "lookup"
    /\ IF JobFound(workers[w].job_id)
       THEN SetWorker(w, [workers[w] EXCEPT !.pc = "returned"])
       ELSE Raise(w, JobNotFound)
    /\ UNCHANGED <<jobs, documents, chunk_table, claim_count, pipeline_runs,
                   claim_fault, pack_vars, retrieval_vars, store_vars, embed_vars, invoke_vars, align_vars>>

\* the storage layer raises in the claim write, its commit or the lookup
ClaimRaises(w) ==
    /\ workers[w].pc \in {"claim", "claim_commit", "lookup"}
    /\ Raise(w, DbError)
    /\ LET j == workers[w].job_id
       IN  claim_fault' = IF JobExists(j) THEN [claim_fault EXCEPT ![j] = TRUE]
                          ELSE claim_fault
    /\ UNCHANGED <<jobs, documents, chunk_table, claim_count, pipeline_runs, pack_vars, retrieval_vars, store_vars, embed_vars, invoke_vars, align_vars>>

\* reload the Job, select its Document
LoadDocument(w) ==
    /\ workers[w].pc = "load"
    /\ LET j == workers[w].job_id
       IN  /\ IF jobs[j].document_id \in DOMAIN documents
              THEN SetWorker(w, [workers[w] EXCEPT !.pc = "extract"])
              ELSE Raise(w, DocumentNotFound)
           /\ pipeline_runs' = [pipeline_runs EXCEPT ![j] = Bump(@)]
    /\ UNCHANGED <<jobs, documents, chunk_table, claim_count, claim_fault, pack_vars, retrieval_vars, store_vars, embed_vars, invoke_vars, align_vars>>

\* transcribe / download + extract, chunk, and the empty-extraction check
Extract(w) ==
    /\ workers[w].pc = "extract"
    /\ LET doc == documents[jobs[workers[w].job_id].document_id]
       IN  \E content \in SourceContents :
              LET chunks_data == ChunksFor(doc, content)
              IN  IF EmptyExtraction(chunks_data)
                  THEN Raise(w, NoChunks)
                  ELSE SetWorker(w, [workers[w] EXCEPT !.pc = "embed",
                                                       !.chunks_data = chunks_data])
    /\ UNCHANGED <<jobs, documents, chunk_table, claim_count, pipeline_runs,
                   claim_fault, pack_vars, retrieval_vars, store_vars, embed_vars, invoke_vars, align_vars>>

\* embeddings = embedding_service.generate_embeddings(texts): one vector per
\* text, or one vector short
Embed(w) ==
    /\ workers[w].pc = "embed"
    /\ LET cd == workers[w].chunks_data
       IN  \E n \in {Len(cd), Len(cd) - 1} :
              SetWorker(w, [workers[w] EXCEPT !.pc = "embed_check",
                                !.embeddings = [k \in 1..n |-> cd[k].text]])
    /\ UNCHANGED <<jobs, documents, chunk_table, claim_count, pipeline_runs,
                   claim_fault, pack_vars, retrieval_vars, store_vars, embed_vars, invoke_vars, align_vars>>

\* Safety Check: Embedding Mismatch
CheckEmbeddingCount(w) ==
    /\ workers[w].pc = "embed_check"
    /\ IF CountMismatch(workers[w].embeddings, workers[w].chunks_data)
       THEN Raise(w, EmbeddingMismatch)
       ELSE SetWorker(w, [workers[w] EXCEPT !.pc = "store"])
    /\ UNCHANGED <<jobs, documents, chunk_table, claim_count, pipeline_runs,
                   claim_fault, pack_vars, retrieval_vars, store_vars, embed_vars, invoke_vars, align_vars>>

\* the store loop: one select + update-or-add per chunk, inside the session
StoreChunks(w) ==
    /\ workers[w].pc = "store"
    /\ LET cd == workers[w].chunks_data
           doc_id == jobs[workers[w].job_id].document_id
           base == MaxOf(UsedChunkIds)
       IN  SetWorker(w, [workers[w] EXCEPT
               !.pc = "complete",
               !.session = StoredRows(doc_id, cd, workers[w].embeddings, base)])
    /\ UNCHANGED <<jobs, documents, chunk_table, claim_count, pipeline_runs,
                   claim_fault, pack_vars, retrieval_vars, store_vars, embed_vars, invoke_vars, align_vars>>

\* job.status = completed; session.commit()
Complete(w) ==
    /\ workers[w].pc = "complete"
    /\ LET j == workers[w].job_id
           written == workers[w].session
       IN  /\ ~LockedByOther(w, j)
           /\ chunk_table' =
                  [id \in DOMAIN chunk_table \cup DOMAIN written |->
                      IF id \in DOMAIN written THEN written[id] ELSE chunk_table[id]]
           /\ jobs' = [jobs EXCEPT ![j].status = "completed"]
    /\ SetWorker(w, [workers[w] EXCEPT !.pc = "returned", !.session = <<>>,
                                       !.chunks_data = <<>>, !.embeddings = <<>>])
    /\ UNCHANGED <<documents, claim_count, pipeline_runs, claim_fault, pack_vars, retrieval_vars, store_vars, embed_vars, invoke_vars, align_vars>>

\* a collaborator or the storage layer raises during the pipeline
PipelineRaises(w) ==
    /\ workers[w].pc \in PipelinePcs
    /\ workers[w].pc # "embed_check"
    /\ Raise(w, IF workers[w].pc \in {"extract", "embed"} THEN CollaboratorError
                ELSE IF workers[w].pc \in {"store", "complete"} THEN StoreError
                ELSE DbError)
    /\ UNCHANGED <<jobs, documents, chunk_table, claim_count, pipeline_runs,
                   claim_fault, pack_vars, retrieval_vars, store_vars, embed_vars, invoke_vars, align_vars>>

\* except Exception: rollback, update(Job).where(job_id).values(failed, str(e)),
\* commit, raise
HandleFailure(w) ==
    /\ workers[w].pc = "handler"
    /\ LET j == workers[w].job_id
           kept == Rollback(workers[w].session)
       IN  /\ ~LockedByOther(w, j)
           /\ jobs' = IF JobExists(j)
                      THEN [jobs EXCEPT ![j] = FailedRow(@, workers[w].e)]
                      ELSE jobs
           /\ chunk_table' =
                  [id \in DOMAIN chunk_table \cup DOMAIN kept |->
                      IF id \in DOMAIN kept THEN kept[id] ELSE chunk_table[id]]
    /\ SetWorker(w, [workers[w] EXCEPT !.pc = "raised", !.session = <<>>,
                                       !.chunks_data = <<>>, !.embeddings = <<>>])
    /\ UNCHANGED <<documents, claim_count, pipeline_runs,
                   claim_fault, pack_vars, retrieval_vars, store_vars, embed_vars, invoke_vars, align_vars>>

\* the failure write itself raises: logged, the original exception is re-raised
HandleFailureUnsaved(w) ==
    /\ workers[w].pc = "handler"
    /\ SetWorker(w, [workers[w] EXCEPT !.pc = "raised_unsaved", !.session = <<>>,
                                       !.chunks_data = <<>>, !.embeddings = <<>>,
                                       !.e = Reraise(@, FailureWriteError)])
    /\ UNCHANGED <<jobs, documents, chunk_table, claim_count, pipeline_runs,
                   claim_fault, pack_vars, retrieval_vars, store_vars, embed_vars, invoke_vars, align_vars>>

Init ==
    /\ jobs = <<>>
    /\ documents = <<>>
    /\ chunk_table = <<>>
    /\ workers = [w \in Workers |-> IdleWorker]
    /\ claim_count = <<>>
    /\ pipeline_runs = <<>>
    /\ claim_fault = <<>>
    /\ kind = "transcript"
    /\ sentence_objects = <<>>
    /\ max_tokens = DefaultMaxTokens
    /\ overlap_tokens = DefaultOverlapTokens
    /\ i = 0
    /\ current_chunk_sents = <<>>
    /\ current_tokens = 0
    /\ chunk_idx = 0
    /\ chunks = <<>>
    /\ pk_pc = "done"
    /\ NoRetrieval
    /\ NoAlignment

Next ==
    \/ UploadDocument
    \/ SubmitIngestionJob
    \/ \E w \in Workers, j \in DOMAIN jobs \cup {MissingJobId} : Start(w, j)
    \/ \E w \in Workers : ClaimExecute(w)
    \/ \E w \in Workers : ClaimCommit(w)
    \/ \E w \in Workers : Lookup(w)
    \/ \E w \in Workers : ClaimRaises(w)
    \/ \E w \in Workers : LoadDocument(w)
    \/ \E w \in Workers : Extract(w)
    \/ \E w \in Workers : Embed(w)
    \/ \E w \in Workers : CheckEmbeddingCount(w)
    \/ \E w \in Workers : StoreChunks(w)
    \/ \E w \in Workers : Complete(w)
    \/ \E w \in Workers : PipelineRaises(w)
    \/ \E w \in Workers : HandleFailure(w)
    \/ \E w \in Workers : HandleFailureUnsaved(w)

Spec == Init /\ [][Next]_vars

\* the steps of one invocation that has been started: a running process_job
\* is scheduled until it returns or raises
Proceed(w) ==
    \/ ClaimExecute(w)
    \/ ClaimCommit(w)
    \/ Lookup(w)
    \/ ClaimRaises(w)
    \/ LoadDocument(w)
    \/ Extract(w)
    \/ Embed(w)
    \/ CheckEmbeddingCount(w)
    \/ StoreChunks(w)
    \/ Complete(w)
    \/ PipelineRaises(w)
    \/ HandleFailure(w)
    \/ HandleFailureUnsaved(w)

\* process_job under fair scheduling of every started invocation
SpecLive == Init /\ [][Next]_vars /\ \A w \in Workers : WF_vars(Proceed(w))

\* the process running an invocation dies (kill, out of memory, timeout of the
\* platform): no handler runs, the open transaction is rolled back by the store
Crash(w) ==
    /\ workers[w].pc \in {"claim", "claim_commit", "lookup", "handler"} \cup PipelinePcs
    /\ SetWorker(w, [workers[w] EXCEPT !.pc = "crashed", !.session = <<>>,
                                       !.chunks_data = <<>>, !.embeddings = <<>>])
    /\ UNCHANGED <<jobs, documents, chunk_table, claim_count, pipeline_runs,
                   claim_fault, pack_vars, retrieval_vars, store_vars, embed_vars, invoke_vars, align_vars>>

CrashNext ==
    \/ Next
    \/ \E w \in Workers : Crash(w)

\* process_job with invocations that can die at any step
SpecCrash == Init /\ [][CrashNext]_vars

\* ------------------------------------------------------------------------
\* The chunk persistence step replayed on one store (worker.py, store loop)
\* ------------------------------------------------------------------------
MaxRuns == 2

\* the documents the replayed step writes for: a transcript source and a
\* document source, both behind gs://
StoreDocuments ==
    (1 :> [document_id |-> 1, source_type |-> "audio",
           source_uri |-> "gs", status |-> "pending"]) @@
    (2 :> [document_id |-> 2, source_type |-> "text",
           source_uri |-> "gs", status |-> "pending"])

\* what extraction can deliver on a run that reaches the store loop (at least
\* one chunk): one chunk, two chunks, two chunks cut at another sentence
StoreContents == {<<300>>, <<500, 400>>, <<500, 200, 400>>}

\* the embedding service answers one vector per text; the vectors of two calls
\* for the same text need not be equal
EmbeddingVersions == {"v1", "v2"}

EmbeddingsFor(chunks_data, ver) ==
    [k \in 1..Len(chunks_data) |-> <<chunks_data[k].text, ver>>]

\* for i, chunk_meta in enumerate(chunks_data): select, update or add; commit
PersistChunks(doc_id, content, ver) ==
    /\ Len(persisted) < MaxRuns
    /\ LET cd == ChunksFor(documents[doc_id], content)
           emb == EmbeddingsFor(cd, ver)
           written == StoredRows(doc_id, cd, emb, MaxOf(UsedChunkIds))
       IN  /\ chunk_table' =
                  [id \in DOMAIN chunk_table \cup DOMAIN written |->
                      IF id \in DOMAIN written THEN written[id] ELSE chunk_table[id]]
           /\ persisted' = Append(persisted,
                  [document_id |-> doc_id, chunks_data |-> cd, embeddings |-> emb])
    /\ UNCHANGED <<jobs, documents, workers, claim_count, pipeline_runs,
                   claim_fault, pack_vars, retrieval_vars, embed_vars, invoke_vars, align_vars>>

StoreInit ==
    /\ jobs = <<>>
    /\ documents = StoreDocuments
    /\ chunk_table = <<>>
    /\ workers = [w \in Workers |-> IdleWorker]
    /\ claim_count = <<>>
    /\ pipeline_runs = <<>>
    /\ claim_fault = <<>>
    /\ kind = "transcript"
    /\ sentence_objects = <<>>
    /\ max_tokens = DefaultMaxTokens
    /\ overlap_tokens = DefaultOverlapTokens
    /\ i = 0
    /\ current_chunk_sents = <<>>
    /\ current_tokens = 0
    /\ chunk_idx = 0
    /\ chunks = <<>>
    /\ pk_pc = "done"
    /\ NoRetrieval
    /\ NoAlignment

StoreNext ==
    \E doc_id \in DOMAIN documents, content \in StoreContents,
       ver \in EmbeddingVersions : PersistChunks(doc_id, content, ver)

SpecStore == StoreInit /\ [][StoreNext]_vars

\* ------------------------------------------------------------------------
\* VertexAIEmbeddingService.generate_embeddings (embeddings.py) and the
\* process_job invocation calling it
\* ------------------------------------------------------------------------
MaxTexts == 3
MaxEnvLimit == 2

DefaultBatchLimit == 128
MaxBatchLimit == 250
StopAfterAttempt == 3

\* str(e) of the error the retry decorator raises when it gives up
RetryError == "RetryError"

Min(a, b) == IF a <= b THEN a ELSE b

\* what os.environ holds for EMBEDDING_BATCH_LIMIT: unset, text that int()
\* rejects, or a positive number
EnvLimits ==
    {[set |-> FALSE, numeric |-> FALSE, v |-> 0],
     [set |-> TRUE, numeric |-> FALSE, v |-> 0]}
    \cup {[set |-> TRUE, numeric |-> TRUE, v |-> n] :
              n \in (1..MaxEnvLimit) \cup {MaxBatchLimit, MaxBatchLimit + 1}}

\* __init__: int(os.environ.get(..., default_limit)) capped at 250; the default
\* when int() raises ValueError
BatchLimit(env) ==
    IF ~env.set THEN Min(DefaultBatchLimit, MaxBatchLimit)
    ELSE IF ~env.numeric THEN DefaultBatchLimit
    ELSE Min(env.v, MaxBatchLimit)

\* texts[i : i + self.batch_limit], i zero-based
BatchTexts(txts, at, b) == SubSeq(txts, at + 1, Min(at + b, Len(txts)))

\* the provider's vector for one text
ProviderVector(t) == t

\* the concatenation written the other way round
ExtendFront(all, vectors) == vectors \o all

\* all_embeddings.extend(vectors)
Extend(all, vectors) == all \o vectors

\* the stop condition left out
NeverStop(n) == FALSE

\* stop=stop_after_attempt(3)
ShouldStop(n) == n >= StopAfterAttempt

\* the argument lists of a call made outside a job
StandaloneTexts == {[k \in 1..n |-> <<k>>] : n \in 0..MaxTexts}

\* texts = [c['text'] for c in chunks_data]
TextsOf(chunks_data) == [k \in 1..Len(chunks_data) |-> chunks_data[k].text]

ProviderCall(n_in, n_out, outcome) ==
    [attempt |-> attempt, at |-> ge_i, n_in |-> n_in, n_out |-> n_out,
     outcome |-> outcome]

\* if not texts: return []
EmptyInput ==
    /\ ge_pc = "body"
    /\ texts = <<>>
    /\ ge_result' = <<>>
    /\ ge_pc' = "returned"
    /\ UNCHANGED <<texts, batch_limit, attempt, ge_i, all_embeddings, provider_calls,
                   ge_error, ge_caller, pack_vars, job_vars, retrieval_vars, store_vars, invoke_vars, align_vars>>

\* one round of the batch loop: the provider answers one vector per text
BatchOk ==
    /\ ge_pc = "body"
    /\ ge_i < Len(texts)
    /\ LET batch_texts == BatchTexts(texts, ge_i, batch_limit)
           vectors == [k \in 1..Len(batch_texts) |-> ProviderVector(batch_texts[k])]
       IN  /\ all_embeddings' = Extend(all_embeddings, vectors)
           /\ provider_calls' = Append(provider_calls,
                  ProviderCall(Len(batch_texts), Len(vectors), "ok"))
    /\ ge_i' = ge_i + batch_limit
    /\ UNCHANGED <<texts, batch_limit, attempt, ge_result, ge_error, ge_caller, ge_pc,
                   pack_vars, job_vars, retrieval_vars, store_vars, invoke_vars, align_vars>>

\* the retry decorator after an exception left the body: give up with
\* RetryError, or run the body again from its first line
AttemptFailed ==
    IF ShouldStop(attempt)
    THEN /\ ge_pc' = "raised"
         /\ ge_error' = RetryError
         /\ UNCHANGED <<attempt, ge_i, all_embeddings, invoke_vars>>
    ELSE /\ attempt' = attempt + 1
         /\ ge_i' = 0
         /\ all_embeddings' = <<>>
         /\ UNCHANGED <<ge_pc, ge_error, invoke_vars, align_vars>>

\* the provider answers with one vector missing: the defensive check raises
\* RuntimeError inside the decorated body
BatchMismatch ==
    /\ ge_pc = "body"
    /\ ge_i < Len(texts)
    /\ LET batch_texts == BatchTexts(texts, ge_i, batch_limit)
       IN  provider_calls' = Append(provider_calls,
               ProviderCall(Len(batch_texts), Len(batch_texts) - 1, "mismatch"))
    /\ AttemptFailed
    /\ UNCHANGED <<texts, batch_limit, ge_result, ge_caller,
                   pack_vars, job_vars, retrieval_vars, store_vars, invoke_vars, align_vars>>

\* self.model.get_embeddings raises (quota, throttling, network)
BatchRaises ==
    /\ ge_pc = "body"
    /\ ge_i < Len(texts)
    /\ LET batch_texts == BatchTexts(texts, ge_i, batch_limit)
       IN  provider_calls' = Append(provider_calls,
               ProviderCall(Len(batch_texts), 0, "error"))
    /\ AttemptFailed
    /\ UNCHANGED <<texts, batch_limit, ge_result, ge_caller,
                   pack_vars, job_vars, retrieval_vars, store_vars, invoke_vars, align_vars>>

\* return all_embeddings
ReturnEmbeddings ==
    /\ ge_pc = "body"
    /\ texts # <<>>
    /\ ge_i >= Len(texts)
    /\ ge_result' = all_embeddings
    /\ ge_pc' = "returned"
    /\ UNCHANGED <<texts, batch_limit, attempt, ge_i, all_embeddings, provider_calls,
                   ge_error, ge_caller, pack_vars, job_vars, retrieval_vars, store_vars, invoke_vars, align_vars>>

\* process_job, step 4: embeddings = embedding_service.generate_embeddings(texts)
\* returns to the invocation, or its exception reaches the except block
EmbeddingsDelivered ==
    /\ ge_pc \in {"returned", "raised"}
    /\ ge_caller \in Workers
    /\ workers[ge_caller].pc = "embed"
    /\ IF ge_pc = "returned"
       THEN SetWorker(ge_caller, [workers[ge_caller] EXCEPT
                !.pc = "embed_check", !.embeddings = ge_result])
       ELSE Raise(ge_caller, ge_error)
    /\ ge_pc' = "delivered"
    /\ UNCHANGED <<texts, batch_limit, attempt, ge_i, all_embeddings, provider_calls,
                   ge_result, ge_error, ge_caller,
                   jobs, documents, chunk_table, claim_count, pipeline_runs,
                   claim_fault, pack_vars, retrieval_vars, store_vars, invoke_vars, align_vars>>

\* a call made outside a job, or by an invocation that claimed its job and
\* produced a non-empty chunk list
EmbedInit ==
    /\ \/ /\ jobs = <<>>
          /\ documents = <<>>
          /\ workers = [w \in Workers |-> IdleWorker]
          /\ claim_count = <<>>
          /\ pipeline_runs = <<>>
          /\ claim_fault = <<>>
          /\ ge_caller = 0
          /\ texts \in StandaloneTexts
       \/ \E d \in DOMAIN StoreDocuments, content \in StoreContents :
             LET cd == ChunksFor(StoreDocuments[d], content)
             IN  /\ jobs = (d :> [job_id |-> d, document_id |-> d,
                                  status |-> "processing", error_message |-> None])
                 /\ documents = (d :> StoreDocuments[d])
                 /\ workers = [w \in Workers |->
                        IF w = 1
                        THEN [IdleWorker EXCEPT !.pc = "embed", !.job_id = d,
                                 !.chunks_data = cd, !.claimed = TRUE,
                                 !.start_status = "pending"]
                        ELSE IdleWorker]
                 /\ claim_count = (d :> 1)
                 /\ pipeline_runs = (d :> 1)
                 /\ claim_fault = (d :> FALSE)
                 /\ ge_caller = 1
                 /\ texts = TextsOf(cd)
    /\ chunk_table = <<>>
    /\ \E env \in EnvLimits : batch_limit = BatchLimit(env)
    /\ attempt = 1
    /\ ge_i = 0
    /\ all_embeddings = <<>>
    /\ provider_calls = <<>>
    /\ ge_result = <<>>
    /\ ge_error = None
    /\ ge_pc = "body"
    /\ kind = "transcript"
    /\ sentence_objects = <<>>
    /\ max_tokens = DefaultMaxTokens
    /\ overlap_tokens = DefaultOverlapTokens
    /\ i = 0
    /\ current_chunk_sents = <<>>
    /\ current_tokens = 0
    /\ chunk_idx = 0
    /\ chunks = <<>>
    /\ pk_pc = "done"
    /\ persisted = <<>>
    /\ NoInvocation
    /\ request = <<>> /\ now = 0 /\ start_date = NoDate
    /\ search_filters = <<>> /\ intent_calls = 0
    /\ response = [status_code |-> 0, answer |-> None] /\ q_pc = "idle"
    /\ indexed_chunks = <<>> /\ ts_rank_order = <<>>
    /\ user_id = 0 /\ limit = 0 /\ filters = <<>>
    /\ semantic_results = <<>> /\ keyword_results = <<>>
    /\ scores = <<>> /\ score_keys = <<>> /\ chunks_map = <<>>
    /\ hs_result = <<>> /\ hs_error = None /\ hs_pc = "idle"
    /\ NoAlignment

EmbedNext ==
    \/ EmptyInput
    \/ BatchOk
    \/ BatchMismatch
    \/ BatchRaises
    \/ ReturnEmbeddings
    \/ EmbeddingsDelivered
    \/ \E w \in Workers : CheckEmbeddingCount(w)
    \/ \E w \in Workers : StoreChunks(w)
    \/ \E w \in Workers : Complete(w)
    \/ \E w \in Workers : HandleFailure(w)
    \/ \E w \in Workers : HandleFailureUnsaved(w)

SpecEmbed == EmbedInit /\ [][EmbedNext]_vars

\* ------------------------------------------------------------------------
\* The invoking contexts of process_job: the batch entry point (worker.py,
\* __main__ and run_once) and the task endpoint (worker_service.py)
\* ------------------------------------------------------------------------
ExitSuccess == 0
ExitFailure == 1
HttpOk == 200
HttpBadRequest == 400
HttpUnprocessable == 422
HttpServerError == 500

\* the invocation slot the context runs process_job in
Invoked == 1

\* what the environment variable or the task payload carries: nothing, text
\* that uuid.UUID rejects, the identity of the job, an identity of no job
JobIdInputs ==
    {[given |-> FALSE, wellformed |-> FALSE, id |-> 0],
     [given |-> TRUE, wellformed |-> FALSE, id |-> 0],
     [given |-> TRUE, wellformed |-> TRUE, id |-> 1],
     [given |-> TRUE, wellformed |-> TRUE, id |-> MissingJobId]}

\* the batch process reporting success whatever happened
ExitCodeAlwaysZero(pc) == ExitSuccess

\* sys.exit(0) after run_once returned, sys.exit(1) in except Exception
ExitCodeFor(pc) == IF pc = "returned" THEN ExitSuccess ELSE ExitFailure

\* the JSON answer after process_job returned, HTTPException(500) otherwise
StatusCodeFor(pc) == IF pc = "returned" THEN HttpOk ELSE HttpServerError

Report(exit_code, status_code) ==
    /\ reported' = [done |-> TRUE,
                    exit_code |-> IF context = "batch" THEN exit_code ELSE 0,
                    status_code |-> IF context = "service" THEN status_code ELSE 0]
    /\ inv_pc' = "done"

\* asyncio.run(run_once(job_id)) / await process_job(session, job_uuid)
CallProcessJob ==
    /\ SetWorker(Invoked, [IdleWorker EXCEPT !.pc = "claim", !.job_id = job_id_str.id,
                              !.start_status = IF JobExists(job_id_str.id)
                                               THEN jobs[job_id_str.id].status ELSE None])
    /\ inv_pc' = "run"
    /\ UNCHANGED reported

\* __main__: read JOB_ID, exit 1 when it is unset, empty or not a UUID, else run
MainEntry ==
    /\ inv_pc = "entry"
    /\ context = "batch"
    /\ IF ~job_id_str.given \/ ~job_id_str.wellformed
       THEN Report(ExitFailure, 0) /\ UNCHANGED workers
       ELSE CallProcessJob
    /\ UNCHANGED <<jobs, documents, chunk_table, claim_count, pipeline_runs, claim_fault,
                   context, job_id_str, infra_fault,
                   pack_vars, retrieval_vars, store_vars, embed_vars, align_vars>>

\* __main__: run_once returned or raised
MainExit ==
    /\ inv_pc = "run"
    /\ context = "batch"
    /\ workers[Invoked].pc \in Terminal
    /\ Report(ExitCodeFor(workers[Invoked].pc), 0)
    /\ UNCHANGED <<job_vars, context, job_id_str, infra_fault,
                   pack_vars, retrieval_vars, store_vars, embed_vars, align_vars>>

\* process_task: the payload is validated, the identity parsed, process_job run
ProcessTaskEntry ==
    /\ inv_pc = "entry"
    /\ context = "service"
    /\ IF ~job_id_str.given
       THEN Report(0, HttpUnprocessable) /\ UNCHANGED workers
       ELSE IF ~job_id_str.wellformed
            THEN Report(0, HttpBadRequest) /\ UNCHANGED workers
            ELSE CallProcessJob
    /\ UNCHANGED <<jobs, documents, chunk_table, claim_count, pipeline_runs, claim_fault,
                   context, job_id_str, infra_fault,
                   pack_vars, retrieval_vars, store_vars, embed_vars, align_vars>>

\* process_task: process_job returned or raised
ProcessTaskAnswer ==
    /\ inv_pc = "run"
    /\ context = "service"
    /\ workers[Invoked].pc \in Terminal
    /\ Report(0, StatusCodeFor(workers[Invoked].pc))
    /\ UNCHANGED <<job_vars, context, job_id_str, infra_fault,
                   pack_vars, retrieval_vars, store_vars, embed_vars, align_vars>>

\* creating the engine or opening the session raises before process_job runs,
\* or closing the session / engine.dispose() raises after it ended
InfrastructureRaises ==
    /\ \/ inv_pc = "entry" /\ job_id_str.given /\ job_id_str.wellformed
       \/ inv_pc = "run" /\ workers[Invoked].pc \in Terminal
    /\ infra_fault' = TRUE
    /\ Report(ExitFailure, HttpServerError)
    /\ UNCHANGED <<job_vars, context, job_id_str,
                   pack_vars, retrieval_vars, store_vars, embed_vars, align_vars>>

\* the chunk rows of a document whose job was completed before
CompletedRows(d, cd) ==
    [id \in 1..Len(cd) |-> NewChunk(d, cd[id], cd[id].text, id)]

\* one trigger arrives while the jobs table holds no job, or one job in any
\* status (pending; processing, owned by another invocation; completed with
\* its chunks; failed)
InvokeInit ==
    /\ \/ /\ jobs = <<>>
          /\ documents = <<>>
          /\ chunk_table = <<>>
          /\ claim_count = <<>>
          /\ pipeline_runs = <<>>
          /\ claim_fault = <<>>
       \/ \E src \in SubmittedSources, st \in Statuses, content \in SourceContents :
             LET doc == [document_id |-> 1, source_type |-> src[1],
                         source_uri |-> src[2], status |-> "pending"]
                 cd == ChunksFor(doc, content)
             IN  /\ st = "completed" => cd # <<>>
                 /\ st # "completed" => content = <<>>
                 /\ documents = (1 :> doc)
                 /\ jobs = (1 :> [job_id |-> 1, document_id |-> 1, status |-> st,
                                  error_message |-> IF st = "failed"
                                                    THEN CollaboratorError ELSE None])
                 /\ chunk_table = IF st = "completed" THEN CompletedRows(1, cd) ELSE <<>>
                 /\ claim_count = (1 :> IF st = "pending" THEN 0 ELSE 1)
                 /\ pipeline_runs = (1 :> IF st = "pending" THEN 0 ELSE 1)
                 /\ claim_fault = (1 :> FALSE)
    /\ workers = [w \in Workers |-> IdleWorker]
    /\ context \in {"batch", "service"}
    /\ job_id_str \in JobIdInputs
    /\ reported = NotReported
    /\ infra_fault = FALSE
    /\ inv_pc = "entry"
    /\ kind = "transcript"
    /\ sentence_objects = <<>>
    /\ max_tokens = DefaultMaxTokens
    /\ overlap_tokens = DefaultOverlapTokens
    /\ i = 0
    /\ current_chunk_sents = <<>>
    /\ current_tokens = 0
    /\ chunk_idx = 0
    /\ chunks = <<>>
    /\ pk_pc = "done"
    /\ persisted = <<>>
    /\ NoEmbedding
    /\ request = <<>> /\ now = 0 /\ start_date = NoDate
    /\ search_filters = <<>> /\ intent_calls = 0
    /\ response = [status_code |-> 0, answer |-> None] /\ q_pc = "idle"
    /\ indexed_chunks = <<>> /\ ts_rank_order = <<>>
    /\ user_id = 0 /\ limit = 0 /\ filters = <<>>
    /\ semantic_results = <<>> /\ keyword_results = <<>>
    /\ scores = <<>> /\ score_keys = <<>> /\ chunks_map = <<>>
    /\ hs_result = <<>> /\ hs_error = None /\ hs_pc = "idle"
    /\ NoAlignment

InvokeNext ==
    \/ MainEntry
    \/ MainExit
    \/ ProcessTaskEntry
    \/ ProcessTaskAnswer
    \/ InfrastructureRaises
    \/ \E w \in Workers : Proceed(w)

SpecInvoke == InvokeInit /\ [][InvokeNext]_vars

\* ------------------------------------------------------------------------
\* Hybrid retrieval (search.py)
\* ------------------------------------------------------------------------
MaxChunks == 3
MaxLimit == 2

\* limit=20 passed to both legs
FusionPool == 20

\* a constant below 19, where two last places no longer outweigh one first place
RrfKSmall == FusionPool \div 2

\* k = 60 of the fusion
RrfK == 60

\* the principal of the request and another tenant
DemoUser == 1
OtherUser == 2

\* chunk rows as the WHERE clauses see them (user_id, document_id, created_at):
\* two rows of the principal in document 1 created at times 1 and 2, one in
\* document 2, and one row of another tenant
ChunkProfiles ==
    {[user_id |-> DemoUser, document_id |-> 1, created_at |-> 1],
     [user_id |-> DemoUser, document_id |-> 1, created_at |-> 2],
     [user_id |-> DemoUser, document_id |-> 2, created_at |-> 2],
     [user_id |-> OtherUser, document_id |-> 1, created_at |-> 2]}

\* filters["document_id"]: a list, a single id, or an empty list
DocParams ==
    {[is_list |-> TRUE, ids |-> {1}],
     [is_list |-> FALSE, ids |-> {1}],
     [is_list |-> TRUE, ids |-> {}]}

\* the filters dict with the given keys
MakeFilters(keys, doc_param, from_date, to_date) ==
    [k \in keys |-> IF k = "document_id" THEN doc_param
                    ELSE IF k = "start_date" THEN from_date ELSE to_date]

RECURSIVE SortedIds(_)
SortedIds(S) ==
    IF S = {} THEN <<>>
    ELSE LET m == CHOOSE x \in S : \A y \in S : x <= y
         IN  <<m>> \o SortedIds(S \ {m})

\* all sequences of distinct elements of S
RECURSIVE Arrangements(_)
Arrangements(S) ==
    {<<>>} \cup UNION {{<<x>> \o t : t \in Arrangements(S \ {x})} : x \in S}

Take(seq, n) == SubSeq(seq, 1, IF n < Len(seq) THEN n ELSE Len(seq))

\* "document_id" in filters and filters["document_id"]
HasDocFilter(f) == "document_id" \in DOMAIN f /\ f["document_id"].ids # {}

\* the WHERE clause without the principal's scope
ConditionsNoTenant(row, uid, f) ==
    /\ HasDocFilter(f) => row.document_id \in f["document_id"].ids
    /\ "start_date" \in DOMAIN f => row.created_at >= f["start_date"]
    /\ "end_date" \in DOMAIN f => row.created_at <= f["end_date"]

\* the WHERE clause shared by both legs
Conditions(row, uid, f) ==
    /\ row.user_id = uid
    /\ HasDocFilter(f) => row.document_id \in f["document_id"].ids
    /\ "start_date" \in DOMAIN f => row.created_at >= f["start_date"]
    /\ "end_date" \in DOMAIN f => row.created_at <= f["end_date"]

\* "metadata": {..., "created_at": chunk.created_at}
Metadata(row) == [created_at |-> row.created_at]

\* the dict of the semantic leg: "score": similarity = 1 - distance
SemanticItem(store, id) ==
    [chunk_id |-> id, document_id |-> store[id].document_id, method |-> None,
     score |-> [measure |-> "similarity", chunk_id |-> id],
     metadata |-> Metadata(store[id])]

\* the dict of the keyword leg: "score": ts_rank, "method": "keyword"
KeywordItem(store, id) ==
    [chunk_id |-> id, document_id |-> store[id].document_id, method |-> "keyword",
     score |-> [measure |-> "ts_rank", chunk_id |-> id],
     metadata |-> Metadata(store[id])]

\* ORDER BY distance LIMIT lim over the rows passing the WHERE clause
SemanticSearch(store, uid, lim, f) ==
    LET ids == SelectSeq(SortedIds(DOMAIN store),
                         LAMBDA id : Conditions(store[id], uid, f))
    IN  [n \in 1..Len(Take(ids, lim)) |-> SemanticItem(store, ids[n])]

\* ORDER BY rank DESC LIMIT lim over the matching rows passing the WHERE clause
KeywordSearch(store, order, uid, lim, f) ==
    LET ids == SelectSeq(order,
                         LAMBDA id : id \in DOMAIN store /\ Conditions(store[id], uid, f))
    IN  [n \in 1..Len(Take(ids, lim)) |-> KeywordItem(store, ids[n])]

\* exact arithmetic on the scores: <<numerator, denominator>>
RatAdd(a, b) == <<a[1] * b[2] + b[1] * a[2], a[2] * b[2]>>
RatEq(a, b) == a[1] * b[2] = b[1] * a[2]
RatLess(a, b) == a[1] * b[2] < b[1] * a[2]

\* the term taken with a one-based rank
RrfTermOneBased(rank) == <<1, RrfK + rank + 2>>

\* 1.0 / (k + rank + 1)
RrfTerm(rank) == <<1, RrfK + rank + 1>>

\* scores.get(cid, 0.0)
ScoreGet(sc, cid) == IF cid \in DOMAIN sc THEN sc[cid] ELSE <<0, 1>>

\* for rank, item in enumerate(results): scores[cid] = scores.get(cid, 0.0) + term
RECURSIVE FuseLeg(_, _, _)
FuseLeg(results, n, acc) ==
    IF n > Len(results) THEN acc
    ELSE LET cid == results[n].chunk_id
         IN  FuseLeg(results, n + 1,
                 [scores |-> [c \in DOMAIN acc.scores \cup {cid} |->
                                 IF c = cid
                                 THEN RatAdd(ScoreGet(acc.scores, cid), RrfTerm(n - 1))
                                 ELSE acc.scores[c]],
                  score_keys |-> IF cid \in DOMAIN acc.scores THEN acc.score_keys
                                 ELSE Append(acc.score_keys, cid)])

\* chunks_map[cid] = item for the items of either leg
MapLegUnconditional(results, map, overwrite) ==
    [c \in DOMAIN map \cup {results[n].chunk_id : n \in 1..Len(results)} |->
        IF \E n \in 1..Len(results) : results[n].chunk_id = c
        THEN results[CHOOSE n \in 1..Len(results) : results[n].chunk_id = c]
        ELSE map[c]]

\* chunks_map[cid] = item (semantic leg: always; keyword leg: if cid not in chunks_map)
MapLeg(results, map, overwrite) ==
    [c \in DOMAIN map \cup {results[n].chunk_id : n \in 1..Len(results)} |->
        IF c \in DOMAIN map /\ ~overwrite THEN map[c]
        ELSE IF \E n \in 1..Len(results) : results[n].chunk_id = c
             THEN results[CHOOSE n \in 1..Len(results) : results[n].chunk_id = c]
             ELSE map[c]]

\* for cid, score in scores.items(): item with fusion_score and method 'hybrid'
FusedItems(sc, keys, map) ==
    [n \in 1..Len(keys) |->
        [fusion_score |-> sc[keys[n]]] @@ [map[keys[n]] EXCEPT !.method = "hybrid"]]

\* an item also moves in front of the items it ties with
GoesBeforeOrTies(item, other) == ~RatLess(item.fusion_score, other.fusion_score)

\* an item moves in front of another only on a strictly greater fusion_score
GoesBefore(item, other) == RatLess(other.fusion_score, item.fusion_score)

\* stable insertion into a list sorted by descending fusion_score
RECURSIVE InsertDesc(_, _)
InsertDesc(sorted, item) ==
    IF sorted = <<>> THEN <<item>>
    ELSE IF GoesBefore(item, sorted[1])
         THEN <<item>> \o sorted
         ELSE <<sorted[1]>> \o InsertDesc(Tail(sorted), item)

\* fused_results.sort(key=fusion_score, reverse=True): stable
RECURSIVE SortDesc(_, _)
SortDesc(items, acc) ==
    IF items = <<>> THEN acc
    ELSE SortDesc(Tail(items), InsertDesc(acc, items[1]))

\* the embedding error leaving hybrid_search
EmbeddingErrorPropagates == [pc |-> "raised", error |-> CollaboratorError]

\* except Exception as e: fall back to keyword search
EmbeddingErrorHandler == [pc |-> "fallback", error |-> None]

\* the filters dicts requests are drawn with: none, each form of the document
\* filter, a creation-time range, and all three keys
RequestFilters ==
    {<<{}, TRUE, {1}>>,
     <<{"document_id"}, TRUE, {1}>>,
     <<{"document_id"}, FALSE, {1}>>,
     <<{"document_id"}, TRUE, {}>>,
     <<{"start_date", "end_date"}, TRUE, {1}>>,
     <<{"document_id", "start_date", "end_date"}, TRUE, {1}>>}

\* a store with more visible chunks than the fusion pool holds: the chunks
\* beyond the pool can reach the fusion through the keyword leg only
OverflowChunks ==
    [id \in 1..(FusionPool + 2) |->
        [user_id |-> DemoUser, document_id |-> 1, created_at |-> 2]]

\* a full-text ranking that fills the keyword pool: a chunk outside the
\* semantic pool first, then chunks 2..FusionPool, so that chunk FusionPool is
\* last in both pools and chunk 1 is in the semantic pool only
LastInBothPools ==
    <<FusionPool + 1>> \o [n \in 1..(FusionPool - 1) |-> n + 1]

SearchInit ==
    /\ \/ /\ \E n \in 0..MaxChunks : indexed_chunks \in [1..n -> ChunkProfiles]
          /\ ts_rank_order \in Arrangements(DOMAIN indexed_chunks)
          /\ \E rf \in RequestFilters :
                filters = MakeFilters(rf[1], [is_list |-> rf[2], ids |-> rf[3]], 2, 2)
       \/ /\ indexed_chunks = OverflowChunks
          /\ \/ ts_rank_order \in Arrangements({1, FusionPool + 1, FusionPool + 2})
             \/ ts_rank_order = LastInBothPools
          /\ filters = MakeFilters({}, [is_list |-> TRUE, ids |-> {}], 2, 2)
    /\ user_id = DemoUser
    /\ limit \in 1..MaxLimit
    /\ semantic_results = <<>> /\ keyword_results = <<>>
    /\ scores = <<>> /\ score_keys = <<>> /\ chunks_map = <<>>
    /\ hs_result = <<>> /\ hs_error = None
    /\ hs_pc = "embed"
    /\ NoQuery
    /\ jobs = <<>> /\ documents = <<>> /\ chunk_table = <<>>
    /\ workers = <<>>
    /\ claim_count = <<>> /\ pipeline_runs = <<>> /\ claim_fault = <<>>
    /\ kind = "transcript"
    /\ sentence_objects = <<>>
    /\ max_tokens = DefaultMaxTokens
    /\ overlap_tokens = DefaultOverlapTokens
    /\ i = 0
    /\ current_chunk_sents = <<>>
    /\ current_tokens = 0
    /\ chunk_idx = 0
    /\ chunks = <<>>
    /\ pk_pc = "done"
    /\ NoAlignment

\* a statement that removes the rows it matches
ExecuteDelete(store) == <<>>

\* result = await session.execute(stmt), stmt a select(...): the rows stay
ExecuteSelect(store) == store

\* query_embedding = embedding_service.generate_embeddings([query])[0]
EmbedQuery ==
    /\ hs_pc = "embed"
    /\ hs_pc' = "semantic"
    /\ UNCHANGED <<indexed_chunks, ts_rank_order, user_id, limit, filters,
                   semantic_results, keyword_results, scores, score_keys,
                   chunks_map, hs_result, hs_error, invoke_vars>>
    /\ UNCHANGED <<pack_vars, job_vars, store_vars, embed_vars, query_vars, invoke_vars, align_vars>>

\* the embedding call raises (or returns no vector)
EmbedQueryFails ==
    /\ hs_pc = "embed"
    /\ hs_pc' = EmbeddingErrorHandler.pc
    /\ hs_error' = EmbeddingErrorHandler.error
    /\ UNCHANGED <<indexed_chunks, ts_rank_order, user_id, limit, filters,
                   semantic_results, keyword_results, scores, score_keys,
                   chunks_map, hs_result, invoke_vars>>
    /\ UNCHANGED <<pack_vars, job_vars, store_vars, embed_vars, query_vars, invoke_vars, align_vars>>

\* return await self.keyword_search(session, query, user_id, limit, filters)
KeywordFallback ==
    /\ hs_pc = "fallback"
    /\ hs_result' = KeywordSearch(indexed_chunks, ts_rank_order, user_id, limit, filters)
    /\ indexed_chunks' = ExecuteSelect(indexed_chunks)
    /\ hs_pc' = "returned_keyword_only"
    /\ UNCHANGED <<ts_rank_order, user_id, limit, filters,
                   semantic_results, keyword_results, scores, score_keys,
                   chunks_map, hs_error, invoke_vars>>
    /\ UNCHANGED <<pack_vars, job_vars, store_vars, embed_vars, query_vars, invoke_vars, align_vars>>

SemanticLeg ==
    /\ hs_pc = "semantic"
    /\ semantic_results' = SemanticSearch(indexed_chunks, user_id, FusionPool, filters)
    /\ indexed_chunks' = ExecuteSelect(indexed_chunks)
    /\ hs_pc' = "keyword"
    /\ UNCHANGED <<ts_rank_order, user_id, limit, filters,
                   keyword_results, scores, score_keys, chunks_map, hs_result, hs_error, invoke_vars>>
    /\ UNCHANGED <<pack_vars, job_vars, store_vars, embed_vars, query_vars, invoke_vars, align_vars>>

KeywordLeg ==
    /\ hs_pc = "keyword"
    /\ keyword_results' =
           KeywordSearch(indexed_chunks, ts_rank_order, user_id, FusionPool, filters)
    /\ indexed_chunks' = ExecuteSelect(indexed_chunks)
    /\ hs_pc' = "fuse_semantic"
    /\ UNCHANGED <<ts_rank_order, user_id, limit, filters,
                   semantic_results, scores, score_keys, chunks_map, hs_result, hs_error, invoke_vars>>
    /\ UNCHANGED <<pack_vars, job_vars, store_vars, embed_vars, query_vars, invoke_vars, align_vars>>

\* a leg's query raises in the storage layer; nothing in hybrid_search catches it
LegRaises ==
    /\ hs_pc \in {"semantic", "keyword", "fallback"}
    /\ hs_pc' = "raised"
    /\ hs_error' = DbError
    /\ UNCHANGED <<indexed_chunks, ts_rank_order, user_id, limit, filters,
                   semantic_results, keyword_results, scores, score_keys,
                   chunks_map, hs_result, invoke_vars>>
    /\ UNCHANGED <<pack_vars, job_vars, store_vars, embed_vars, query_vars, invoke_vars, align_vars>>

\* Process Semantic
FuseSemantic ==
    /\ hs_pc = "fuse_semantic"
    /\ LET acc == FuseLeg(semantic_results, 1, [scores |-> scores, score_keys |-> score_keys])
       IN  /\ scores' = acc.scores
           /\ score_keys' = acc.score_keys
    /\ chunks_map' = MapLeg(semantic_results, chunks_map, TRUE)
    /\ hs_pc' = "fuse_keyword"
    /\ UNCHANGED <<indexed_chunks, ts_rank_order, user_id, limit, filters,
                   semantic_results, keyword_results, hs_result, hs_error, invoke_vars>>
    /\ UNCHANGED <<pack_vars, job_vars, store_vars, embed_vars, query_vars, invoke_vars, align_vars>>

\* Process Keyword
FuseKeyword ==
    /\ hs_pc = "fuse_keyword"
    /\ LET acc == FuseLeg(keyword_results, 1, [scores |-> scores, score_keys |-> score_keys])
       IN  /\ scores' = acc.scores
           /\ score_keys' = acc.score_keys
    /\ chunks_map' = MapLeg(keyword_results, chunks_map, FALSE)
    /\ hs_pc' = "sort"
    /\ UNCHANGED <<indexed_chunks, ts_rank_order, user_id, limit, filters,
                   semantic_results, keyword_results, hs_result, hs_error, invoke_vars>>
    /\ UNCHANGED <<pack_vars, job_vars, store_vars, embed_vars, query_vars, invoke_vars, align_vars>>

\* Sort and Limit
SortAndLimit ==
    /\ hs_pc = "sort"
    /\ hs_result' = Take(SortDesc(FusedItems(scores, score_keys, chunks_map), <<>>), limit)
    /\ hs_pc' = "returned"
    /\ UNCHANGED <<indexed_chunks, ts_rank_order, user_id, limit, filters,
                   semantic_results, keyword_results, scores, score_keys,
                   chunks_map, hs_error, invoke_vars>>
    /\ UNCHANGED <<pack_vars, job_vars, store_vars, embed_vars, query_vars, invoke_vars, align_vars>>

SearchNext ==
    \/ EmbedQuery
    \/ EmbedQueryFails
    \/ KeywordFallback
    \/ SemanticLeg
    \/ KeywordLeg
    \/ LegRaises
    \/ FuseSemantic
    \/ FuseKeyword
    \/ SortAndLimit

SpecSearch == SearchInit /\ [][SearchNext]_vars

\* ------------------------------------------------------------------------
\* The query endpoint (api/query.py)
\* ------------------------------------------------------------------------
MaxSegments == 2

\* the literal recency phrases of parse_temporal_intent
Phrases ==
    {"last week", "past week", "yesterday", "last month", "past month", "last 24 hours"}

\* a query text is a sequence of pieces, each a recency phrase or other text,
\* written in lower case or not; no phrase is part of another, so the
\* substrings of the text that are phrases are exactly its phrase pieces
Segments == [text : Phrases \cup {"other text"}, upper : BOOLEAN]

Queries == UNION {[1..n -> Segments] : n \in 0..MaxSegments}

\* the text taken as written
AsWritten(q) == q

\* query.lower()
Lower(q) == [n \in 1..Len(q) |-> [q[n] EXCEPT !.upper = FALSE]]

\* phrase in query_lower
Contains(query_lower, phrase) ==
    \E n \in 1..Len(query_lower) : query_lower[n] = [text |-> phrase, upper |-> FALSE]

\* timedelta(days=...) and timedelta(hours=...), in hours
Days(n) == 24 * n
Hours(n) == n

ParseTemporalIntent(query, utcnow) ==
    LET query_lower == Lower(query)
    IN  IF Contains(query_lower, "last week") \/ Contains(query_lower, "past week")
        THEN [present |-> TRUE, t |-> utcnow - Days(7)]
        ELSE IF Contains(query_lower, "yesterday")
        THEN [present |-> TRUE, t |-> utcnow - Days(1)]
        ELSE IF Contains(query_lower, "last month") \/ Contains(query_lower, "past month")
        THEN [present |-> TRUE, t |-> utcnow - Days(30)]
        ELSE IF Contains(query_lower, "last 24 hours")
        THEN [present |-> TRUE, t |-> utcnow - Hours(24)]
        ELSE NoDate

\* the filters a request is drawn with: <<filters given, date_range given,
\* keys of date_range, date_range["start"] can be parsed>>
QueryFilterChoices ==
    {<<FALSE, FALSE, {}, TRUE>>,
     <<TRUE, FALSE, {}, TRUE>>,
     <<TRUE, TRUE, {}, TRUE>>,
     <<TRUE, TRUE, {"end"}, TRUE>>,
     <<TRUE, TRUE, {"start"}, TRUE>>,
     <<TRUE, TRUE, {"start"}, FALSE>>,
     <<TRUE, TRUE, {"start", "end"}, TRUE>>,
     <<TRUE, TRUE, {"start", "end"}, FALSE>>}

\* the hour the request is served at and the hour a parseable start names
ServedAt == 1000
ExplicitStart == 500

QueryRequest(q, fc, ids) ==
    [query |-> q,
     has_filters |-> fc[1],
     has_date_range |-> fc[2],
     date_range |-> [k \in fc[3] |-> [parses |-> (k = "end" \/ fc[4]), t |-> ExplicitStart]],
     document_ids |-> ids]

\* the explicit branch taken only for a start that parses
UseExplicitStartIfParses(req) ==
    /\ req.has_filters
    /\ req.has_date_range /\ DOMAIN req.date_range # {}
    /\ "start" \in DOMAIN req.date_range
    /\ req.date_range["start"].parses

\* request.filters and request.filters.date_range and "start" in request.filters.date_range
UseExplicitStart(req) ==
    /\ req.has_filters
    /\ req.has_date_range /\ DOMAIN req.date_range # {}
    /\ "start" \in DOMAIN req.date_range

\* try: date_parser.parse(...) except: pass
ParseExplicitStart(v) == IF v.parses THEN [present |-> TRUE, t |-> v.t] ELSE NoDate

QueryInit ==
    /\ \E q \in Queries, fc \in QueryFilterChoices, ids \in {{}, {1}} :
          request = QueryRequest(q, fc, IF fc[1] THEN ids ELSE {})
    /\ now = ServedAt
    /\ start_date = NoDate
    /\ search_filters = <<>>
    /\ intent_calls = 0
    /\ response = [status_code |-> 0, answer |-> None]
    /\ q_pc = "temporal"
    /\ persisted = <<>>
    /\ NoEmbedding
    /\ NoInvocation
    /\ indexed_chunks = <<>> /\ ts_rank_order = <<>>
    /\ user_id = 0 /\ limit = 0 /\ filters = <<>>
    /\ semantic_results = <<>> /\ keyword_results = <<>>
    /\ scores = <<>> /\ score_keys = <<>> /\ chunks_map = <<>>
    /\ hs_result = <<>> /\ hs_error = None /\ hs_pc = "idle"
    /\ jobs = <<>> /\ documents = <<>> /\ chunk_table = <<>>
    /\ workers = <<>>
    /\ claim_count = <<>> /\ pipeline_runs = <<>> /\ claim_fault = <<>>
    /\ kind = "transcript"
    /\ sentence_objects = <<>>
    /\ max_tokens = DefaultMaxTokens
    /\ overlap_tokens = DefaultOverlapTokens
    /\ i = 0
    /\ current_chunk_sents = <<>>
    /\ current_tokens = 0
    /\ chunk_idx = 0
    /\ chunks = <<>>
    /\ pk_pc = "done"
    /\ NoAlignment

\* 1. Temporal Parsing, explicit filter
TemporalParsingExplicit ==
    /\ q_pc = "temporal"
    /\ UseExplicitStart(request)
    /\ start_date' = ParseExplicitStart(request.date_range["start"])
    /\ q_pc' = "filters"
    /\ UNCHANGED <<request, now, search_filters, intent_calls, response, invoke_vars>>
    /\ UNCHANGED <<pack_vars, job_vars, store_vars, embed_vars, search_vars, invoke_vars, align_vars>>

\* 1. Temporal Parsing, implicit parsing
TemporalParsingImplicit ==
    /\ q_pc = "temporal"
    /\ ~UseExplicitStart(request)
    /\ start_date' = ParseTemporalIntent(request.query, now)
    /\ intent_calls' = intent_calls + 1
    /\ q_pc' = "filters"
    /\ UNCHANGED <<request, now, search_filters, response, invoke_vars>>
    /\ UNCHANGED <<pack_vars, job_vars, store_vars, embed_vars, search_vars, invoke_vars, align_vars>>

\* search_filters = {}; start_date and document_ids added when truthy
BuildSearchFilters ==
    /\ q_pc = "filters"
    /\ search_filters' =
           [k \in (IF start_date.present THEN {"start_date"} ELSE {})
                  \cup (IF request.has_filters /\ request.document_ids # {}
                        THEN {"document_id"} ELSE {}) |->
               IF k = "start_date" THEN start_date.t
               ELSE [is_list |-> TRUE, ids |-> request.document_ids]]
    /\ q_pc' = "search"
    /\ UNCHANGED <<request, now, start_date, intent_calls, response, invoke_vars>>
    /\ UNCHANGED <<pack_vars, job_vars, store_vars, embed_vars, search_vars, invoke_vars, align_vars>>

\* hybrid_search raises: HTTPException(status_code=500)
SearchFails ==
    /\ q_pc = "search"
    /\ response' = [status_code |-> 500, answer |-> None]
    /\ q_pc' = "responded"
    /\ UNCHANGED <<request, now, start_date, search_filters, intent_calls, invoke_vars>>
    /\ UNCHANGED <<pack_vars, job_vars, store_vars, embed_vars, search_vars, invoke_vars, align_vars>>

\* if not chunks: the fixed answer without citations
SearchReturnsNothing ==
    /\ q_pc = "search"
    /\ response' = [status_code |-> 200, answer |-> "No relevant information found."]
    /\ q_pc' = "responded"
    /\ UNCHANGED <<request, now, start_date, search_filters, intent_calls, invoke_vars>>
    /\ UNCHANGED <<pack_vars, job_vars, store_vars, embed_vars, search_vars, invoke_vars, align_vars>>

\* 3. LLM Generation over the chunks found
GenerateAnswer ==
    /\ q_pc = "search"
    /\ \/ response' = [status_code |-> 200, answer |-> "generated"]
       \/ response' = [status_code |-> 500, answer |-> None]
    /\ q_pc' = "responded"
    /\ UNCHANGED <<request, now, start_date, search_filters, intent_calls, invoke_vars>>
    /\ UNCHANGED <<pack_vars, job_vars, store_vars, embed_vars, search_vars, invoke_vars, align_vars>>

QueryNext ==
    \/ TemporalParsingExplicit
    \/ TemporalParsingImplicit
    \/ BuildSearchFilters
    \/ SearchFails
    \/ SearchReturnsNothing
    \/ GenerateAnswer

SpecQuery == QueryInit /\ [][QueryNext]_vars

\* ------------------------------------------------------------------------
\* A served query: query_endpoint calling hybrid_search over a store
\* (api/query.py with search.py)
\* ------------------------------------------------------------------------
MaxServed == 2

\* limit=10, "Top 10 for context"
QueryLimit == 10

\* the hour the date_range of a request ends at
ExplicitEnd == 600

\* rows created before the explicit start, inside the range, and after its end
ServedProfiles ==
    {[user_id |-> DemoUser, document_id |-> 1, created_at |-> 400],
     [user_id |-> DemoUser, document_id |-> 2, created_at |-> 550],
     [user_id |-> DemoUser, document_id |-> 1, created_at |-> 900]}

\* no recency phrase, or "last week"
ServedQueries == {q \in Queries : Len(q) <= 1 /\ \A n \in 1..Len(q) :
                     ~q[n].upper /\ q[n].text \in {"other text", "last week"}}

\* the request as posted: date_range["start"] and date_range["end"] name
\* different hours
ServedRequest(q, fc, ids) ==
    [QueryRequest(q, fc, ids) EXCEPT
        !.date_range = [k \in fc[3] |->
            [parses |-> (k = "end" \/ fc[4]),
             t |-> IF k = "end" THEN ExplicitEnd ELSE ExplicitStart]]]

\* the documents the rows belong to, each with its completed job
ServedDocuments ==
    [d \in {1, 2} |-> [document_id |-> d, source_type |-> "text",
                       source_uri |-> "gs", status |-> "pending"]]

ServedJobs ==
    [d \in {1, 2} |-> [job_id |-> d, document_id |-> d, status |-> "completed",
                       error_message |-> None]]

ServeInit ==
    /\ \E q \in ServedQueries, fc \in QueryFilterChoices, ids \in {{}, {1}} :
          request = ServedRequest(q, fc, IF fc[1] THEN ids ELSE {})
    /\ now = ServedAt
    /\ start_date = NoDate
    /\ search_filters = <<>>
    /\ intent_calls = 0
    /\ response = [status_code |-> 0, answer |-> None]
    /\ q_pc = "temporal"
    /\ persisted = <<>>
    /\ NoEmbedding
    /\ NoInvocation
    /\ \E n \in 0..MaxServed : indexed_chunks \in [1..n -> ServedProfiles]
    /\ \E S \in SUBSET DOMAIN indexed_chunks : ts_rank_order = SortedIds(S)
    /\ user_id = 0 /\ limit = 0 /\ filters = <<>>
    /\ semantic_results = <<>> /\ keyword_results = <<>>
    /\ scores = <<>> /\ score_keys = <<>> /\ chunks_map = <<>>
    /\ hs_result = <<>> /\ hs_error = None /\ hs_pc = "idle"
    /\ jobs = ServedJobs /\ documents = ServedDocuments /\ chunk_table = <<>>
    /\ workers = <<>>
    /\ claim_count = <<>> /\ pipeline_runs = <<>> /\ claim_fault = <<>>
    /\ kind = "transcript"
    /\ sentence_objects = <<>>
    /\ max_tokens = DefaultMaxTokens
    /\ overlap_tokens = DefaultOverlapTokens
    /\ i = 0
    /\ current_chunk_sents = <<>>
    /\ current_tokens = 0
    /\ chunk_idx = 0
    /\ chunks = <<>>
    /\ pk_pc = "done"
    /\ NoAlignment

\* 2. Hybrid Search: search_service.hybrid_search(session=db, query, user_id,
\* limit=10, filters=search_filters)
CallHybridSearch ==
    /\ q_pc = "search"
    /\ hs_pc = "idle"
    /\ q_pc' = "searching"
    /\ hs_pc' = "embed"
    /\ user_id' = DemoUser
    /\ limit' = QueryLimit
    /\ filters' = search_filters
    /\ UNCHANGED <<request, now, start_date, search_filters, intent_calls, response>>
    /\ UNCHANGED <<indexed_chunks, ts_rank_order, semantic_results, keyword_results,
                   scores, score_keys, chunks_map, hs_result, hs_error>>
    /\ UNCHANGED <<pack_vars, job_vars, store_vars, embed_vars, invoke_vars, align_vars>>

\* except Exception as e: raise HTTPException(status_code=500, detail=str(e))
SearchRaised ==
    /\ q_pc = "searching"
    /\ hs_pc = "raised"
    /\ response' = [status_code |-> HttpServerError, answer |-> None]
    /\ q_pc' = "responded"
    /\ UNCHANGED <<request, now, start_date, search_filters, intent_calls>>
    /\ UNCHANGED <<pack_vars, job_vars, store_vars, embed_vars, search_vars, invoke_vars, align_vars>>

\* if not chunks: return QueryResponse(answer="No relevant information found.")
NoRelevantChunks ==
    /\ q_pc = "searching"
    /\ hs_pc \in {"returned", "returned_keyword_only"}
    /\ hs_result = <<>>
    /\ response' = [status_code |-> HttpOk, answer |-> "No relevant information found."]
    /\ q_pc' = "responded"
    /\ UNCHANGED <<request, now, start_date, search_filters, intent_calls>>
    /\ UNCHANGED <<pack_vars, job_vars, store_vars, embed_vars, search_vars, invoke_vars, align_vars>>

\* result = llm_service.generate_answer(request.query, chunks): an answer, or
\* the provider's exception leaving the endpoint
AnswerFromChunks ==
    /\ q_pc = "searching"
    /\ hs_pc \in {"returned", "returned_keyword_only"}
    /\ hs_result # <<>>
    /\ \/ response' = [status_code |-> HttpOk, answer |-> "generated"]
       \/ response' = [status_code |-> HttpServerError, answer |-> None]
    /\ q_pc' = "responded"
    /\ UNCHANGED <<request, now, start_date, search_filters, intent_calls>>
    /\ UNCHANGED <<pack_vars, job_vars, store_vars, embed_vars, search_vars, invoke_vars, align_vars>>

ServeNext ==
    \/ TemporalParsingExplicit
    \/ TemporalParsingImplicit
    \/ BuildSearchFilters
    \/ CallHybridSearch
    \/ SearchNext
    \/ SearchRaised
    \/ NoRelevantChunks
    \/ AnswerFromChunks

SpecServe == ServeInit /\ [][ServeNext]_vars

\* ------------------------------------------------------------------------
\* Properties of the job state machine (Spec)
\* ------------------------------------------------------------------------
InvocationsOf(j) == {w \in Workers : workers[w].pc # "idle" /\ workers[w].job_id = j}

Stepped(w) == workers'[w] # workers[w]

\* C1: racing invocations of process_job for one pending job commit exactly
\* one pending -> processing transition; one invocation runs the pipeline and
\* every other one returns normally without running a pipeline stage (claim
\* steps that the storage layer lets complete).
C1_ClaimAtomicity ==
    \A j \in DOMAIN jobs :
        /\ claim_count[j] <= 1
        /\ pipeline_runs[j] <= 1
        /\ Cardinality({w \in InvocationsOf(j) : workers[w].claimed}) <= 1
        /\ \A w \in InvocationsOf(j) :
               ~workers[w].claimed => workers[w].pc \notin PipelinePcs
        /\ ~claim_fault[j] =>
               /\ \A w \in InvocationsOf(j) :
                      (workers[w].pc \in Terminal /\ ~workers[w].claimed)
                          => workers[w].pc = "returned" /\ workers[w].e = None
               /\ (\E w \in InvocationsOf(j) : workers[w].pc \in Terminal)
                      => claim_count[j] = 1

\* two invocations started on the same pending job; one claimed it, the other
\* returned as a no-op
C1_Witness ==
    \E j \in DOMAIN jobs : \E w1, w2 \in InvocationsOf(j) :
        /\ w1 # w2
        /\ workers[w1].start_status = "pending" /\ workers[w2].start_status = "pending"
        /\ workers[w1].claimed /\ workers[w1].pc \in PipelinePcs \cup Terminal
        /\ workers[w2].pc = "returned" /\ ~workers[w2].claimed
        /\ ~claim_fault[j]

AllowedTransitions ==
    {<<"pending", "processing">>, <<"processing", "completed">>,
     <<"processing", "failed">>}

\* C2: a job's status is always one of the four wire values, every status
\* change is pending -> processing, processing -> completed or
\* processing -> failed, and a job is set to failed only by the invocation
\* that claimed it, whatever step raises.
C2_StatusTransitions ==
    /\ [](\A j \in DOMAIN jobs : jobs[j].status \in Statuses)
    /\ [][\A j \in DOMAIN jobs :
              jobs'[j].status # jobs[j].status =>
                  /\ <<jobs[j].status, jobs'[j].status>> \in AllowedTransitions
                  /\ jobs'[j].status = "failed" =>
                         \E w \in InvocationsOf(j) : Stepped(w) /\ workers[w].claimed]_vars

StartedOnTerminal(w) == workers[w].start_status \in {"completed", "failed"}

C4_LostClaimLookup ==
    /\ [](\A w \in Workers :
              /\ (workers[w].pc = "lookup" /\ JobExists(workers[w].job_id))
                     => jobs[workers[w].job_id].status \in
                            {"processing", "completed", "failed"}
              /\ workers[w].e = JobNotFound =>
                     /\ ~JobExists(workers[w].job_id)
                     /\ workers[w].pc \in {"handler", "raised", "raised_unsaved"}
              /\ (workers[w].pc \in Terminal /\ ~JobExists(workers[w].job_id))
                     => workers[w].pc # "returned")
    /\ [][\A w \in Workers :
              /\ (workers[w].pc = "lookup" /\ Stepped(w) /\ workers'[w].e # DbError) =>
                     IF JobExists(workers[w].job_id)
                     THEN workers'[w].pc = "returned" /\ workers'[w].e = None
                     ELSE workers'[w].pc = "handler" /\ workers'[w].e = JobNotFound
              /\ (Stepped(w) /\ ~JobExists(workers'[w].job_id)) =>
                     /\ jobs' = jobs
                     /\ documents' = documents
                     /\ chunk_table' = chunk_table]_vars

\* an invocation for an unknown identity ended with the not-found error
C4_Witness ==
    \E w \in Workers :
        /\ workers[w].pc = "raised"
        /\ workers[w].e = JobNotFound
        /\ ~JobExists(workers[w].job_id)

ChunksOfDocument(d) == {id \in DOMAIN chunk_table : chunk_table[id].document_id = d}

Unchunkable(doc) ==
    \/ doc.source_type \notin {"audio", "pdf", "markdown", "text"}
    \/ doc.source_type \in {"pdf", "markdown", "text"} /\ doc.source_uri # "gs"

\* C6: a completed job has at least one stored chunk of its document; an
\* empty chunk list never passes the extraction step, a job whose source
\* kind or URI scheme yields no chunks is never completed, and the invocation
\* that found the list empty leaves the job failed.
C6_NeverCompletedEmpty ==
    /\ \A j \in DOMAIN jobs :
           /\ jobs[j].status = "completed" => ChunksOfDocument(jobs[j].document_id) # {}
           /\ Unchunkable(documents[jobs[j].document_id]) => jobs[j].status # "completed"
    /\ \A w \in Workers :
           /\ workers[w].pc \in {"embed", "store", "complete"} =>
                  workers[w].chunks_data # <<>>
           /\ (workers[w].pc = "extract" /\ Unchunkable(documents[jobs[workers[w].job_id].document_id]))
                  => \A content \in SourceContents :
                         ChunksFor(documents[jobs[workers[w].job_id].document_id], content) = <<>>
           /\ workers[w].e = NoChunks =>
                  /\ jobs[workers[w].job_id].status # "completed"
                  /\ workers[w].pc = "raised" => jobs[workers[w].job_id].status = "failed"

\* a web or image document produced no chunks and its job ended failed
C6_Witness ==
    \E w \in Workers :
        /\ workers[w].pc = "raised"
        /\ workers[w].e = NoChunks
        /\ documents[jobs[workers[w].job_id].document_id].source_type \in {"web", "image"}
        /\ jobs[workers[w].job_id].status = "failed"
        /\ jobs[workers[w].job_id].error_message = NoChunks

C20_EmbeddingMismatch ==
    /\ [](\A w \in Workers :
              workers[w].e = EmbeddingMismatch =>
                  LET j == workers[w].job_id
                  IN  /\ workers[w].claimed
                      /\ workers[w].pc \in {"handler", "raised", "raised_unsaved"}
                      /\ ChunksOfDocument(jobs[j].document_id) = {}
                      /\ jobs[j].status # "completed"
                      /\ workers[w].pc = "raised" => jobs[j].status = "failed")
    /\ [][\A w \in Workers :
              (/\ workers[w].pc = "embed_check"
               /\ Len(workers[w].embeddings) # Len(workers[w].chunks_data)
               /\ Stepped(w))
                  => /\ workers'[w].pc = "handler"
                     /\ workers'[w].e = EmbeddingMismatch
                     /\ chunk_table' = chunk_table]_vars

\* one vector came back for two chunk texts and the job ended failed with the
\* mismatch recorded
C20_Witness ==
    \E w \in Workers :
        /\ workers[w].pc = "raised"
        /\ workers[w].e = EmbeddingMismatch
        /\ jobs[workers[w].job_id].status = "failed"
        /\ jobs[workers[w].job_id].error_message = EmbeddingMismatch
        /\ ChunksOfDocument(jobs[workers[w].job_id].document_id) = {}

\* ------------------------------------------------------------------------
\* Properties of the packer (SpecPack)
\* ------------------------------------------------------------------------
Range(f) == {f[x] : x \in DOMAIN f}

\* the sentence objects a chunk joins, and their summed token count
ChunkSents(c) == [k \in 1..Len(c.text) |-> sentence_objects[c.text[k]]]
ChunkTokens(c) == SumTokens(ChunkSents(c))

OversizedAlone(c) ==
    Len(c.text) = 1 /\ sentence_objects[c.text[1]].token_count > max_tokens

\* C7: every chunk produced by the packing loop has a summed sentence token
\* count <= max_tokens, except a chunk made of exactly one sentence whose own
\* token count exceeds max_tokens.
C7_TokenBound ==
    \A n \in 1..Len(chunks) :
        ChunkTokens(chunks[n]) <= max_tokens \/ OversizedAlone(chunks[n])

\* C8: in the returned chunk list, a sentence whose own token count exceeds
\* max_tokens occurs only in a chunk that consists of that sentence alone.
C8_OversizedSentenceAlone ==
    pk_pc = "done" =>
        \A p \in 1..Len(sentence_objects) :
            sentence_objects[p].token_count > max_tokens =>
                /\ \E n \in 1..Len(chunks) : p \in Range(chunks[n].text)
                /\ \A n \in 1..Len(chunks) :
                       p \in Range(chunks[n].text) => chunks[n].text = <<p>>

\* number of leading sentences of chunk n+1 that chunk n also contains
Carried(n) ==
    Cardinality({k \in 1..Len(chunks[n + 1].text) :
                    chunks[n + 1].text[k] \in Range(chunks[n].text)})

SuffixTokens(c, m) ==
    SumTokens(SubSeq(ChunkSents(c), Len(c.text) - m + 1, Len(c.text)))

\* C9: for consecutive chunks n, n+1 the sentences of chunk n carried into
\* chunk n+1 are a suffix of chunk n (and the prefix of chunk n+1) whose token
\* count is <= overlap_tokens, and no longer suffix of chunk n fits the budget.
C9_OverlapSuffix ==
    \A n \in 1..(Len(chunks) - 1) :
        LET a == chunks[n].text
            b == chunks[n + 1].text
            m == Carried(n)
        IN  /\ m <= Len(a)
            /\ SubSeq(b, 1, m) = SubSeq(a, Len(a) - m + 1, Len(a))
            /\ SuffixTokens(chunks[n], m) <= overlap_tokens
            /\ m = Len(a) \/ SuffixTokens(chunks[n], m + 1) > overlap_tokens

\* a chunk was followed by one that carries part, but not all, of it
C9_Witness ==
    \E n \in 1..(Len(chunks) - 1) : Carried(n) >= 1 /\ Carried(n) < Len(chunks[n].text)

IsExample ==
    /\ [p \in 1..Len(sentence_objects) |-> sentence_objects[p].token_count] = ExampleTokens
    /\ max_tokens = DefaultMaxTokens
    /\ overlap_tokens = DefaultOverlapTokens

\* C10: token counts [50, 60, 700, 90] with max_tokens = 800 and
\* overlap_tokens = 100 give exactly three chunks, the sentences [50,60],
\* [60,700] and [90], with chunk_index 0, 1, 2.
C10_PackingExample ==
    (pk_pc = "done" /\ IsExample) =>
        /\ [n \in 1..Len(chunks) |-> chunks[n].text] = << <<1, 2>>, <<2, 3>>, <<4>> >>
        /\ [n \in 1..Len(chunks) |-> chunks[n].chunk_index] = <<0, 1, 2>>

C10_Witness == pk_pc = "done" /\ IsExample /\ Len(chunks) = 3

\* C11: the chunks of one call of chunk_transcript or chunk_document carry
\* chunk_index 0, 1, ..., n-1 in output order, without gap or repetition, and
\* the counter always equals the number of chunks emitted by the loop.
C11_SequentialIndices ==
    /\ \A n \in 1..Len(chunks) : chunks[n].chunk_index = n - 1
    /\ pk_pc = "loop" => chunk_idx = Len(chunks)

\* a call of each function returned at least three chunks
C11_Witness == pk_pc = "done" /\ Len(chunks) >= 3 /\ ~IsExample

\* ------------------------------------------------------------------------
\* Properties of hybrid retrieval (SpecSearch)
\* ------------------------------------------------------------------------
\* zero-based rank of fragment cid in a leg's result list, -1 if absent
RankIn(results, cid) ==
    IF \E n \in 1..Len(results) : results[n].chunk_id = cid
    THEN (CHOOSE n \in 1..Len(results) : results[n].chunk_id = cid) - 1
    ELSE -1

LegIds(results) == {results[n].chunk_id : n \in 1..Len(results)}

Fused == hs_pc \in {"sort", "returned"}

\* C12: the fused score of a fragment is the sum over the legs in which it
\* appears of 1/(60 + r + 1), r its zero-based rank in the leg: both terms for
\* a fragment in both legs (1/63 + 1/61 at semantic rank 2 and keyword rank
\* 0), the single term for a fragment in one leg; returned items carry it.
C12_RrfScore ==
    Fused =>
        /\ DOMAIN scores = LegIds(semantic_results) \cup LegIds(keyword_results)
        /\ \A cid \in DOMAIN scores :
               LET rs == RankIn(semantic_results, cid)
                   rk == RankIn(keyword_results, cid)
               IN  /\ (rs >= 0 /\ rk >= 0) =>
                          RatEq(scores[cid], <<(60 + rs + 1) + (60 + rk + 1),
                                               (60 + rs + 1) * (60 + rk + 1)>>)
                   /\ (rs >= 0 /\ rk < 0) => RatEq(scores[cid], <<1, 60 + rs + 1>>)
                   /\ (rs < 0 /\ rk >= 0) => RatEq(scores[cid], <<1, 60 + rk + 1>>)
                   /\ (rs = 2 /\ rk = 0) => RatEq(scores[cid], <<63 + 61, 63 * 61>>)
        /\ \A n \in 1..Len(hs_result) :
               hs_result[n].fusion_score = scores[hs_result[n].chunk_id]

\* a search returned with a fragment at semantic rank 2 and keyword rank 0
\* next to a fragment found by one leg only
C12_Witness ==
    /\ hs_pc = "returned"
    /\ \E cid \in DOMAIN scores :
           RankIn(semantic_results, cid) = 2 /\ RankIn(keyword_results, cid) = 0
    /\ \E cid \in DOMAIN scores : RankIn(keyword_results, cid) < 0

\* position at which a fragment was first inserted: semantic-leg results in
\* leg order, then the keyword-only results in leg order
InsertionPos(cid) ==
    IF RankIn(semantic_results, cid) >= 0 THEN RankIn(semantic_results, cid)
    ELSE Len(semantic_results) +
         Cardinality({n \in 1..(RankIn(keyword_results, cid) + 1) :
                         keyword_results[n].chunk_id \notin LegIds(semantic_results)})

MinOf(a, b) == IF a < b THEN a ELSE b

\* C13: the list returned on the fusion path holds each fragment once, is
\* ordered by non-increasing fused score, orders exact ties by first insertion
\* (semantic-leg results in leg order, then keyword-only results in leg order)
\* and has length min(limit, number of distinct fused fragments).
C13_FusedOrder ==
    hs_pc = "returned" =>
        /\ \A a, b \in 1..Len(hs_result) :
               a # b => hs_result[a].chunk_id # hs_result[b].chunk_id
        /\ \A a, b \in 1..Len(hs_result) :
               a < b =>
                   /\ ~RatLess(hs_result[a].fusion_score, hs_result[b].fusion_score)
                   /\ RatEq(hs_result[a].fusion_score, hs_result[b].fusion_score) =>
                          InsertionPos(hs_result[a].chunk_id)
                              < InsertionPos(hs_result[b].chunk_id)
        /\ Len(hs_result) =
               MinOf(limit, Cardinality(LegIds(semantic_results)
                                            \cup LegIds(keyword_results)))

\* a returned list was cut to limit and holds a semantic-leg fragment in
\* front of a keyword-only fragment of exactly the same score
C13_Witness ==
    /\ hs_pc = "returned"
    /\ Len(hs_result) < Cardinality(DOMAIN scores)
    /\ \E a, b \in 1..Len(hs_result) :
           /\ a < b
           /\ RatEq(hs_result[a].fusion_score, hs_result[b].fusion_score)
           /\ RankIn(semantic_results, hs_result[b].chunk_id) < 0

\* a row the principal may see under the request's filters: owned by the
\* principal, in the requested documents when a non-empty set of documents is
\* requested, and created inside the inclusive time range
Visible(row) ==
    /\ row.user_id = user_id
    /\ ("document_id" \in DOMAIN filters /\ filters["document_id"].ids # {})
           => row.document_id \in filters["document_id"].ids
    /\ "start_date" \in DOMAIN filters => row.created_at >= filters["start_date"]
    /\ "end_date" \in DOMAIN filters => row.created_at <= filters["end_date"]

ResultIds == [n \in 1..Len(hs_result) |-> hs_result[n].chunk_id]

Restrict(f, S) == [x \in S |-> f[x]]

OwnIds == {id \in DOMAIN indexed_chunks : indexed_chunks[id].user_id = user_id}

\* hybrid_search as a function of the store (fusion path)
HybridSearch(store, order, uid, lim, f) ==
    LET sem == SemanticSearch(store, uid, FusionPool, f)
        kw == KeywordSearch(store, order, uid, FusionPool, f)
        a1 == FuseLeg(sem, 1, [scores |-> <<>>, score_keys |-> <<>>])
        a2 == FuseLeg(kw, 1, a1)
        map == MapLeg(kw, MapLeg(sem, <<>>, TRUE), FALSE)
    IN  Take(SortDesc(FusedItems(a2.scores, a2.score_keys, map), <<>>), lim)

\* C15: every fragment returned by hybrid_search, on the fusion path and on
\* the keyword-only path, is owned by the requesting principal and passes the
\* document-id and creation-time filters, and the result equals the result
\* over the store without the other principals' chunks.
C15_TenantIsolation ==
    /\ hs_pc \in {"returned", "returned_keyword_only"} =>
           \A n \in 1..Len(hs_result) :
               /\ hs_result[n].chunk_id \in DOMAIN indexed_chunks
               /\ Visible(indexed_chunks[hs_result[n].chunk_id])
    /\ hs_pc = "returned" =>
           hs_result = HybridSearch(Restrict(indexed_chunks, OwnIds),
                                    SelectSeq(ts_rank_order, LAMBDA id : id \in OwnIds),
                                    user_id, limit, filters)
    /\ hs_pc = "returned_keyword_only" =>
           hs_result = KeywordSearch(Restrict(indexed_chunks, OwnIds),
                                     SelectSeq(ts_rank_order, LAMBDA id : id \in OwnIds),
                                     user_id, limit, filters)

\* a search returned fragments while another principal's chunk matched the
\* query text and the filters and was nearer to the query than any of them
C15_Witness ==
    /\ hs_pc \in {"returned", "returned_keyword_only"}
    /\ Len(hs_result) >= 1
    /\ \E id \in DOMAIN indexed_chunks :
           /\ indexed_chunks[id].user_id = OtherUser
           /\ id = 1
           /\ ts_rank_order # <<>> /\ ts_rank_order[1] = id
           /\ ConditionsNoTenant(indexed_chunks[id], user_id, filters)

\* ------------------------------------------------------------------------
\* Properties of the query endpoint (SpecQuery)
\* ------------------------------------------------------------------------
\* the request's date_range carries a start
CarriesStart == request.has_filters /\ request.has_date_range
                    /\ "start" \in DOMAIN request.date_range

\* the text holds the phrase, in any letter case and at any position
HasPhrase(phrase) == \E n \in 1..Len(request.query) : request.query[n].text = phrase

TemporalParsed == q_pc \in {"filters", "search", "responded"}

\* C16: when the request's date_range carries a start, parse_temporal_intent
\* is not called and the start bound is the supplied value, or none when the
\* value cannot be parsed, whatever the query text says; when it carries no
\* start, the start bound is the one inferred from the query text, or none;
\* the filters handed to the search carry exactly that bound.
C16_ExplicitStartPrecedence ==
    /\ TemporalParsed =>
           IF CarriesStart
           THEN /\ intent_calls = 0
                /\ start_date = IF request.date_range["start"].parses
                                THEN [present |-> TRUE, t |-> ExplicitStart]
                                ELSE NoDate
           ELSE /\ intent_calls = 1
                /\ start_date = ParseTemporalIntent(request.query, now)
                /\ start_date.present <=> \E ph \in Phrases : HasPhrase(ph)
    /\ q_pc \in {"search", "responded"} =>
           /\ "start_date" \in DOMAIN search_filters <=> start_date.present
           /\ start_date.present => search_filters["start_date"] = start_date.t

\* a request with an unparseable explicit start and "last week" in its text
\* reached the search without a start bound
C16_Witness ==
    /\ q_pc = "search"
    /\ CarriesStart /\ ~request.date_range["start"].parses
    /\ HasPhrase("last week")
    /\ "start_date" \notin DOMAIN search_filters

\* C17: parse_temporal_intent maps the text, matched case-insensitively, to
\* now - 7 days for 'last week' / 'past week', else now - 1 day for
\* 'yesterday', else now - 30 days for 'last month' / 'past month', else
\* now - 24 hours for 'last 24 hours', the first rule in this order winning
\* wherever the phrases stand in the text, and to no bound when none occurs.
C17_TemporalIntent ==
    (TemporalParsed /\ intent_calls = 1) =>
        IF HasPhrase("last week") \/ HasPhrase("past week")
        THEN start_date = [present |-> TRUE, t |-> now - 7 * 24]
        ELSE IF HasPhrase("yesterday")
        THEN start_date = [present |-> TRUE, t |-> now - 24]
        ELSE IF HasPhrase("last month") \/ HasPhrase("past month")
        THEN start_date = [present |-> TRUE, t |-> now - 30 * 24]
        ELSE IF HasPhrase("last 24 hours")
        THEN start_date = [present |-> TRUE, t |-> now - 24]
        ELSE start_date = NoDate

\* a text with 'last month' in capitals in front of 'past week' was mapped to
\* seven days back
C17_Witness ==
    /\ TemporalParsed /\ intent_calls = 1
    /\ Len(request.query) = 2
    /\ request.query[1] = [text |-> "last month", upper |-> TRUE]
    /\ request.query[2].text = "past week"
    /\ start_date = [present |-> TRUE, t |-> now - 168]


\* ---- C19 ----
\* the chunk_meta the latest write of a document carried for a chunk index
LastWriteOf(doc_id) ==
    LET ns == {n \in 1..Len(persisted) : persisted[n].document_id = doc_id}
    IN  persisted[CHOOSE n \in ns : \A m \in ns : m <= n]

WrittenDocs == {persisted[n].document_id : n \in 1..Len(persisted)}

\* the stored row of (doc_id, chunk k of the write) carries the write's values
\* for text, embedding, offsets and page number
RowHoldsWrite(row, write, k) ==
    /\ row.text = write.chunks_data[k].text
    /\ row.embedding = write.embeddings[k]
    /\ row.start_offset = Get(write.chunks_data[k], "start_time", None)
    /\ row.end_offset = Get(write.chunks_data[k], "end_time", None)
    /\ row.page_number = Get(write.chunks_data[k], "page_number", None)

\* ... and for the provenance payload
RowHoldsProvenance(row, write, k) ==
    row.source_ref = Get(write.chunks_data[k], "metadata", <<>>)

\* C19: running the chunk persistence step again for the same (document_id,
\* chunk_index) leaves exactly one record with the identity it had, whose text,
\* embedding, start / end offsets, page number and provenance payload are those
\* of the latest write; running it again with the same content leaves the store
\* as it was after the first run.
C19_UpsertLatestWrite ==
    /\ [](\A doc_id \in WrittenDocs :
            LET write == LastWriteOf(doc_id)
            IN  \A k \in 1..Len(write.chunks_data) :
                   LET same == ExistingChunks(doc_id, write.chunks_data[k].chunk_index)
                   IN  /\ Cardinality(same) = 1
                       /\ \A id \in same :
                             /\ RowHoldsWrite(chunk_table[id], write, k)
                             /\ RowHoldsProvenance(chunk_table[id], write, k))
    /\ [][/\ \A id \in DOMAIN chunk_table :
                /\ id \in DOMAIN chunk_table'
                /\ chunk_table'[id].chunk_id = chunk_table[id].chunk_id
                /\ chunk_table'[id].document_id = chunk_table[id].document_id
                /\ chunk_table'[id].chunk_index = chunk_table[id].chunk_index
          /\ (/\ persisted # <<>>
              /\ persisted' = Append(persisted, persisted[Len(persisted)]))
                => chunk_table' = chunk_table]_vars

\* what the store loop does keep: one record per written index, its identity,
\* and every overwritten field except the provenance payload
C19_AllButProvenance ==
    \A doc_id \in WrittenDocs :
        LET write == LastWriteOf(doc_id)
        IN  \A k \in 1..Len(write.chunks_data) :
               LET same == ExistingChunks(doc_id, write.chunks_data[k].chunk_index)
               IN  /\ Cardinality(same) = 1
                   /\ \A id \in same : RowHoldsWrite(chunk_table[id], write, k)


\* ---- C21 ----
\* the call ended by returning a list
EmbedSucceeded == ge_pc \in {"returned", "delivered"} /\ ge_error = None

\* no provider invocation of the call raised or came back short
NoProviderFault ==
    \A k \in 1..Len(provider_calls) : provider_calls[k].outcome = "ok"

\* the returned list holds the provider's vector of text i at position i
FullOrderedResult ==
    /\ Len(ge_result) = Len(texts)
    /\ \A n \in 1..Len(texts) : ge_result[n] = ProviderVector(texts[n])

\* ceil(n / b)
SliceCount(n, b) == (n + b - 1) \div b

\* C21: the batch limit is positive and never above 250; a call that succeeds
\* with no provider fault sends the consecutive slices [0,b), [b,2b), ..., each
\* of 1..b texts, invokes the provider once per slice and returns n vectors,
\* the vector at position i being the provider's result for text i; an empty
\* input returns the empty list without any provider invocation.
C21_BatchedInOrder ==
    /\ ge_pc # "idle" => batch_limit \in 1..MaxBatchLimit
    /\ (EmbedSucceeded /\ NoProviderFault) =>
          /\ Len(provider_calls) = SliceCount(Len(texts), batch_limit)
          /\ \A k \in 1..Len(provider_calls) :
                /\ provider_calls[k].at = (k - 1) * batch_limit
                /\ provider_calls[k].n_in =
                       Min(batch_limit, Len(texts) - provider_calls[k].at)
                /\ provider_calls[k].n_in \in 1..batch_limit
          /\ FullOrderedResult
          /\ texts = <<>> => (provider_calls = <<>> /\ ge_result = <<>>)

\* a three-text call cut into a full slice and a shorter last slice has returned
C21_Witness ==
    /\ EmbedSucceeded /\ NoProviderFault
    /\ Len(provider_calls) >= 2
    /\ provider_calls[Len(provider_calls)].n_in < batch_limit
    /\ batch_limit > 1

\* ---- C22 ----
\* C22: once a batch call returned a number of vectors different from the
\* batch's input count, the provider is not invoked again for that call and the
\* call returns no vector list.
C22_MismatchPermanent ==
    \A k \in 1..Len(provider_calls) :
        provider_calls[k].outcome = "mismatch" =>
            /\ k = Len(provider_calls)
            /\ ~EmbedSucceeded

\* ---- C23 ----
\* the attempts of the call that ended with an exception
FailedAttempts ==
    {provider_calls[k].attempt :
         k \in {n \in 1..Len(provider_calls) : provider_calls[n].outcome # "ok"}}

\* C23: a call makes at most 3 attempts; when an attempt succeeds the caller
\* gets the full ordered vector list, whatever failed before; when every
\* attempt failed the call ends with an error, and the claimed job of the
\* calling invocation is never completed and is failed once the failure write
\* is saved.
C23_BoundedRetries ==
    /\ attempt <= StopAfterAttempt
    /\ \A k \in 1..Len(provider_calls) :
          provider_calls[k].attempt \in 1..StopAfterAttempt
    /\ EmbedSucceeded => FullOrderedResult
    /\ ge_error # None =>
          /\ FailedAttempts = 1..StopAfterAttempt
          /\ ge_result = <<>>
          /\ ge_caller \in Workers =>
                LET j == workers[ge_caller].job_id
                IN  /\ jobs[j].status # "completed"
                    /\ chunk_table = <<>>
                    /\ workers[ge_caller].pc = "raised" =>
                          /\ jobs[j].status = "failed"
                          /\ jobs[j].error_message = RetryError
                          /\ workers[ge_caller].e = RetryError

\* three failed attempts, and the job of the calling invocation is failed
C23_Witness ==
    /\ ge_error = RetryError
    /\ ge_caller \in Workers
    /\ workers[ge_caller].pc = "raised"
    /\ jobs[workers[ge_caller].job_id].status = "failed"
    /\ Cardinality(FailedAttempts) = StopAfterAttempt


\* ---- C24 ----
JobIds == 1..MaxJobs

HasStatus(j, S) == j \in DOMAIN jobs /\ jobs[j].status \in S

\* C24: under fair scheduling of the invocations, every job in status
\* processing eventually has status completed or failed.
C24_ClaimedJobTerminates ==
    \A j \in JobIds :
        HasStatus(j, {"processing"}) ~> HasStatus(j, {"completed", "failed"})

\* what does hold: a processing job is completed or failed, or its invocation
\* ended with the failure write unsaved
C24_UnlessFailureWriteLost ==
    \A j \in JobIds :
        HasStatus(j, {"processing"}) ~>
            \/ HasStatus(j, {"completed", "failed"})
            \/ \E w \in Workers : /\ workers[w].job_id = j
                                  /\ workers[w].pc = "raised_unsaved"


\* ---- C26 ----
\* C26: whenever an invocation is loading the document or is at any later
\* pipeline step, its claim is committed: the job is no longer pending, so a
\* competing claim write matches no record; and before the commit the
\* invocation holds no chunk list, no embedding and no chunk write.
C26_ClaimCommittedFirst ==
    \A w \in Workers :
        /\ workers[w].pc \in PipelinePcs =>
              /\ workers[w].claimed
              /\ claim_count[workers[w].job_id] >= 1
              /\ jobs[workers[w].job_id].status # "pending"
              /\ ~ClaimMatches(workers[w].job_id)
        /\ workers[w].pc \in {"claim", "claim_commit", "lookup"} =>
              /\ workers[w].chunks_data = <<>>
              /\ workers[w].embeddings = <<>>
              /\ workers[w].session = <<>>
        /\ (workers[w].pc # "idle" /\ JobExists(workers[w].job_id)
                /\ pipeline_runs[workers[w].job_id] >= 1)
              => claim_count[workers[w].job_id] >= 1

\* an invocation is about to load the document while a competitor's claim
\* write has already found the job taken
C26_Witness ==
    \E w, v \in Workers :
        /\ w # v
        /\ workers[w].pc = "load"
        /\ workers[v].pc = "lookup"
        /\ workers[v].job_id = workers[w].job_id
        /\ jobs[workers[w].job_id].status = "processing"

\* ---- C27 ----
\* the rows of document d are the chunks of one extraction, all of them
WholeExtractionStored(d) ==
    \E content \in SourceContents :
        LET cd == ChunksFor(documents[d], content)
        IN  /\ cd # <<>>
            /\ Cardinality(ChunksOfDocument(d)) = Len(cd)
            /\ \A k \in 1..Len(cd) :
                  \E id \in ChunksOfDocument(d) :
                      /\ chunk_table[id].chunk_index = cd[k].chunk_index
                      /\ chunk_table[id].text = cd[k].text

\* C27: the stages of a claimed job run in the order extract / chunk, embed,
\* store, complete: the embedding step is reached only with a non-empty chunk
\* list, a chunk is written only when one embedding per chunk has been obtained
\* and count-checked, and a job is completed only with every chunk stored.
C27_StageOrder ==
    /\ \A w \in Workers :
          /\ workers[w].pc \in {"load", "extract"} =>
                /\ workers[w].chunks_data = <<>>
                /\ workers[w].embeddings = <<>>
          /\ workers[w].pc \in {"embed", "embed_check", "store", "complete"} =>
                workers[w].chunks_data # <<>>
          /\ workers[w].pc = "embed" => workers[w].embeddings = <<>>
          /\ workers[w].pc \in {"store", "complete"} =>
                Len(workers[w].embeddings) = Len(workers[w].chunks_data)
          /\ workers[w].session # <<>> =>
                /\ workers[w].pc \in {"complete", "handler"}
                /\ Len(workers[w].embeddings) = Len(workers[w].chunks_data)
                /\ Cardinality(DOMAIN workers[w].session) = Len(workers[w].chunks_data)
          /\ workers[w].pc \in PipelinePcs =>
                /\ jobs[workers[w].job_id].status # "completed"
                /\ ChunksOfDocument(jobs[workers[w].job_id].document_id) = {}
    /\ \A j \in DOMAIN jobs :
          /\ jobs[j].status = "completed" => WholeExtractionStored(jobs[j].document_id)
          /\ ChunksOfDocument(jobs[j].document_id) # {} =>
                WholeExtractionStored(jobs[j].document_id)

\* a two-chunk extraction went through every stage and the job is completed
C27_Witness ==
    \E w \in Workers :
        /\ workers[w].pc = "returned"
        /\ workers[w].claimed
        /\ jobs[workers[w].job_id].status = "completed"
        /\ Cardinality(ChunksOfDocument(jobs[workers[w].job_id].document_id)) >= 2

\* ---- C28 ----
\* C28: when the write of status failed itself fails, process_job ends by
\* raising the exception that brought it into the handler, not the error of
\* the failed write.
C28_OriginalErrorPropagates ==
    /\ [](\A w \in Workers : workers[w].e # FailureWriteError)
    /\ [][\A w \in Workers :
              (workers[w].pc = "handler" /\ workers'[w].pc = "raised_unsaved") =>
                  /\ workers'[w].e = workers[w].e
                  /\ workers'[w].e # None]_vars

\* a claimed invocation hit a storage error while storing, the failure write
\* failed too, and the storage error of the pipeline is what it raised
C28_Witness ==
    \E w \in Workers :
        /\ workers[w].pc = "raised_unsaved"
        /\ workers[w].claimed
        /\ workers[w].e = StoreError
        /\ jobs[workers[w].job_id].status = "processing"

\* ---- C29 ----
\* C29: after a persistence failure in the store loop or at the final commit
\* the invocation is in its failure handling or has ended by raising; none of
\* its chunk writes is ever in the chunks table, the job is never completed
\* and is failed once the failure write is saved, and neither the claim nor
\* the pipeline is run a second time for the job.
C29_PersistenceFailureTerminal ==
    \A w \in Workers :
        workers[w].e = StoreError =>
            LET j == workers[w].job_id
            IN  /\ workers[w].pc \in {"handler", "raised", "raised_unsaved"}
                /\ workers[w].claimed
                /\ ChunksOfDocument(jobs[j].document_id) = {}
                /\ jobs[j].status # "completed"
                /\ workers[w].pc = "raised" => jobs[j].status = "failed"
                /\ workers[w].pc \in Terminal => workers[w].session = <<>>
                /\ claim_count[j] = 1
                /\ pipeline_runs[j] = 1

\* the final commit failed and the job is failed with no chunk stored
C29_Witness ==
    \E w \in Workers :
        /\ workers[w].pc = "raised"
        /\ workers[w].e = StoreError
        /\ jobs[workers[w].job_id].status = "failed"
        /\ jobs[workers[w].job_id].error_message = StoreError
        /\ ChunksOfDocument(jobs[workers[w].job_id].document_id) = {}


\* ---- C30 ----
\* the invocation that claimed job j died and left it in processing
Orphaned(j) ==
    /\ HasStatus(j, {"processing"})
    /\ \E w \in Workers : /\ workers[w].pc = "crashed"
                          /\ workers[w].claimed
                          /\ workers[w].job_id = j

\* C30: a job left in processing by an invocation that died after the claim
\* commit keeps status processing in every later step of the system.
C30_OrphanStaysProcessing ==
    [][\A j \in JobIds : Orphaned(j) => jobs'[j].status = "processing"]_vars

\* what does hold: an orphaned job is changed by nothing but the failure write
\* of a later invocation whose lookup raised
C30_UnlessLookupFault ==
    [][\A j \in JobIds :
          (Orphaned(j) /\ jobs'[j].status # "processing") =>
              \E w \in Workers : /\ workers[w].pc = "handler"
                                 /\ ~workers[w].claimed
                                 /\ workers[w].e = DbError
                                 /\ workers[w].job_id = j
                                 /\ workers'[w].pc = "raised"]_vars


\* ---- C25 ----
\* process_job returned normally: it completed the job in this run, or its
\* claim matched nothing on a job that was already owned or terminal
ReturnedNormally ==
    LET w == workers[Invoked]
    IN  /\ w.pc = "returned"
        /\ w.e = None
        /\ JobExists(w.job_id)
        /\ \/ w.claimed /\ jobs[w.job_id].status = "completed"
           \/ /\ ~w.claimed
              /\ w.start_status \in {"processing", "completed", "failed"}
              /\ jobs[w.job_id].status = w.start_status

BadJobId == ~job_id_str.given \/ ~job_id_str.wellformed

ReportedSuccess ==
    IF context = "batch" THEN reported.exit_code = ExitSuccess
    ELSE reported.status_code = HttpOk

ReportedFailure ==
    IF context = "batch" THEN reported.exit_code = ExitFailure
    ELSE reported.status_code \in {HttpBadRequest, HttpUnprocessable, HttpServerError}

\* C25: the batch worker exits with 0 exactly when process_job returned
\* normally (job completed by this run, or no-op on an owned or terminal job)
\* and with 1 when JOB_ID is missing or malformed or process_job raised, job
\* not found included; the worker service answers success in the former case
\* and an error response in the latter. (Runs in which opening or closing the
\* session or engine raised report failure whatever process_job did.)
C25_OutcomeReported ==
    reported.done =>
        /\ ReportedSuccess \/ ReportedFailure
        /\ ReportedSuccess => ReturnedNormally
        /\ (workers[Invoked].pc = "returned" /\ ~infra_fault) => ReportedSuccess
        /\ BadJobId => (ReportedFailure /\ workers[Invoked].pc = "idle")
        /\ workers[Invoked].pc \in {"raised", "raised_unsaved"} => ReportedFailure
        /\ workers[Invoked].e # None => ReportedFailure
        /\ infra_fault => ReportedFailure

\* the batch worker completed the job and exited with 0
C25_Witness ==
    /\ reported.done
    /\ context = "batch"
    /\ reported.exit_code = ExitSuccess
    /\ workers[Invoked].claimed
    /\ jobs[workers[Invoked].job_id].status = "completed"


\* ---- C31 ----
\* C31: the status of a job's document equals the status of the job in every
\* state (each status write of process_job is one commit, so there is no state
\* inside a transition).
C31_DocumentMirrorsJob ==
    \A j \in DOMAIN jobs :
        documents[jobs[j].document_id].status = jobs[j].status

\* ------------------------------------------------------------------------
\* Properties of a served query (SpecServe)
\* ------------------------------------------------------------------------

\* ---- C32 ----
\* C32: no step of a query request (temporal parsing, building the filters,
\* either retrieval leg, the keyword fallback, fusion, answer generation, and
\* the failing paths of each) changes a job, document or chunk record.
C32_QueryReadOnly ==
    [][UNCHANGED <<jobs, documents, chunk_table, indexed_chunks, align_vars>>]_vars

\* a request answered from both legs, and one that failed, over a store that
\* holds jobs, documents and chunks
C32_Witness ==
    /\ q_pc = "responded"
    /\ response.status_code = HttpServerError
    /\ hs_pc = "raised"
    /\ semantic_results # <<>>
    /\ indexed_chunks # <<>> /\ jobs # <<>> /\ documents # <<>>

\* ---- C33 ----
\* C33: when the request's date_range carries an end, no fragment created
\* after that end is in the result of the search.
HasExplicitEnd ==
    /\ request.has_filters /\ request.has_date_range
    /\ "end" \in DOMAIN request.date_range

SearchReturned == hs_pc \in {"returned", "returned_keyword_only"}

C33_ExplicitEndApplied ==
    (SearchReturned /\ HasExplicitEnd) =>
        \A n \in 1..Len(hs_result) :
            indexed_chunks[hs_result[n].chunk_id].created_at
                <= request.date_range["end"].t

\* C33 without the end bound: the explicit start and the document ids of the
\* request are applied, as the same conditions, to both legs and the fallback.
C33_StartAndDocumentsApplied ==
    SearchReturned =>
        /\ \A n \in 1..Len(hs_result) :
              LET row == indexed_chunks[hs_result[n].chunk_id]
              IN  /\ (CarriesStart /\ "start" \in DOMAIN request.date_range
                        /\ request.date_range["start"].parses)
                        => row.created_at >= request.date_range["start"].t
                  /\ (request.has_filters /\ request.document_ids # {})
                        => row.document_id \in request.document_ids
        /\ hs_pc = "returned" =>
              /\ semantic_results = SemanticSearch(indexed_chunks, user_id, FusionPool, search_filters)
              /\ keyword_results =
                     KeywordSearch(indexed_chunks, ts_rank_order, user_id, FusionPool, search_filters)

\* ---- C34 ----
\* C34: in the result of hybrid_search, the item of a fragment returned by
\* both legs carries the text, score and metadata of the semantic leg's item,
\* and the item of a fragment returned by one leg carries that leg's.
ItemOf(results, cid) == results[CHOOSE n \in 1..Len(results) : results[n].chunk_id = cid]

SameContent(item, leg_item) ==
    /\ item.chunk_id = leg_item.chunk_id
    /\ item.document_id = leg_item.document_id
    /\ item.score = leg_item.score
    /\ item.metadata = leg_item.metadata

C34_SemanticItemPreferred ==
    hs_pc = "returned" =>
        \A n \in 1..Len(hs_result) :
            LET cid == hs_result[n].chunk_id
            IN  IF cid \in LegIds(semantic_results)
                THEN SameContent(hs_result[n], ItemOf(semantic_results, cid))
                ELSE /\ cid \in LegIds(keyword_results)
                     /\ SameContent(hs_result[n], ItemOf(keyword_results, cid))

\* a result holding a fragment of both legs and a fragment of the keyword leg only
C34_Witness ==
    /\ hs_pc = "returned"
    /\ \E n \in 1..Len(hs_result) :
          hs_result[n].chunk_id \in LegIds(semantic_results) \cap LegIds(keyword_results)
    /\ \E n \in 1..Len(hs_result) :
          hs_result[n].chunk_id \in LegIds(keyword_results) \ LegIds(semantic_results)

\* ------------------------------------------------------------------------
\* Further properties of the packing loop (SpecPack, SpecPackLive)
\* ------------------------------------------------------------------------
FirstSent(c) == sentence_objects[c.text[1]]
LastSent(c) == sentence_objects[c.text[Len(c.text)]]

\* ---- C35 ----
\* C35: a transcript chunk's start_time is its first sentence's start and its
\* end_time its last sentence's end; a document chunk's start_page and end_page
\* are the pages of its first and last sentence, page_number = start_page,
\* start_page <= end_page, and start_page and end_page do not decrease from a
\* chunk to the next (pages being supplied in ascending order).
C35_BoundaryProvenance ==
    \A n \in 1..Len(chunks) :
        LET c == chunks[n]
        IN  /\ kind = "transcript" =>
                  /\ c.start_time = FirstSent(c).start_time
                  /\ c.end_time = LastSent(c).end_time
            /\ kind = "document" =>
                  /\ c.metadata.start_page = FirstSent(c).page_number
                  /\ c.metadata.end_page = LastSent(c).page_number
                  /\ c.page_number = c.metadata.start_page
                  /\ c.metadata.start_page <= c.metadata.end_page
                  /\ n < Len(chunks) =>
                        /\ c.metadata.start_page <= chunks[n + 1].metadata.start_page
                        /\ c.metadata.end_page <= chunks[n + 1].metadata.end_page

\* a document call returned a chunk spanning two pages followed by another chunk
C35_Witness ==
    /\ pk_pc = "done" /\ kind = "document"
    /\ \E n \in 1..(Len(chunks) - 1) :
          /\ chunks[n].metadata.start_page < chunks[n].metadata.end_page
          /\ chunks[n].metadata.start_page < chunks[n + 1].metadata.start_page

\* ---- C37 ----
\* C37: the packing loop returns for every sentence sequence and every
\* max_tokens >= 0 and overlap_tokens >= 0; every chunk holds a sentence that
\* no earlier chunk holds, so there are never more chunks than sentences, and
\* the returned list is empty exactly when there is no sentence.
HasFreshSentence(n) ==
    \E p \in Range(chunks[n].text) :
        \A m \in 1..(n - 1) : p \notin Range(chunks[m].text)

C37_TerminatesWithFreshChunks ==
    /\ <>(pk_pc = "done")
    /\ [](/\ \A n \in 1..Len(chunks) : HasFreshSentence(n)
          /\ Len(chunks) <= Len(sentence_objects)
          /\ pk_pc = "done" => (chunks = <<>> <=> sentence_objects = <<>>))

\* a call with overlap_tokens >= max_tokens returned one chunk per sentence
C37_Witness ==
    /\ pk_pc = "done"
    /\ overlap_tokens >= max_tokens
    /\ Len(chunks) >= 3
    /\ Len(chunks) = Len(sentence_objects)
    /\ \E n \in 1..(Len(chunks) - 1) : Carried(n) >= 1

\* ---- C38 ----
\* C38: in the returned list every chunk is a contiguous run of the sentence
\* sequence, every sentence is in some chunk, and the chunks without their
\* overlap seed, concatenated, are the sentence sequence.
Contiguous(run) == \A k \in 1..(Len(run) - 1) : run[k + 1] = run[k] + 1

\* chunk n without the sentences carried over from chunk n - 1
Remainder(n) ==
    IF n = 1 THEN chunks[1].text
    ELSE SubSeq(chunks[n].text, Carried(n - 1) + 1, Len(chunks[n].text))

RECURSIVE ConcatRemainders(_)
ConcatRemainders(n) ==
    IF n = 0 THEN <<>> ELSE ConcatRemainders(n - 1) \o Remainder(n)

C38_NothingLostOrReordered ==
    pk_pc = "done" =>
        /\ \A n \in 1..Len(chunks) : Contiguous(chunks[n].text)
        /\ \A p \in 1..Len(sentence_objects) :
              \E n \in 1..Len(chunks) : p \in Range(chunks[n].text)
        /\ ConcatRemainders(Len(chunks)) = [p \in 1..Len(sentence_objects) |-> p]

\* a call returned three chunks, one of them seeded with two carried sentences
C38_Witness ==
    /\ pk_pc = "done"
    /\ Len(chunks) >= 3
    /\ \E n \in 1..(Len(chunks) - 1) : Carried(n) >= 2

\* ------------------------------------------------------------------------
\* Properties of the transcript alignment (SpecAlign)
\* ------------------------------------------------------------------------
\* number of characters of a text that are not spaces (case folding keeps the
\* count of the characters used here)
StrippedLength(text) == Cardinality({k \in 1..Len(text) : text[k] # " "})

RECURSIVE StrippedLengthOfWords(_, _)
StrippedLengthOfWords(a, b) ==
    IF a > b THEN 0 ELSE StrippedLength(words[a].text) + StrippedLengthOfWords(a + 1, b)

\* the last word (1-based) of the sentence that starts at word a: the first
\* word at which the accumulated length reaches the target, or the last word
LastWordOf(a, target) ==
    IF \E b \in a..Len(words) : StrippedLengthOfWords(a, b) >= target
    THEN CHOOSE b \in a..Len(words) :
            /\ StrippedLengthOfWords(a, b) >= target
            /\ \A c \in a..(b - 1) : StrippedLengthOfWords(a, c) < target
    ELSE Len(words)

\* the word ranges <<first, last>> of the sentences from position s on, the
\* first of them starting at word a; a sentence reached with no word left has
\* no range
RECURSIVE WordRanges(_, _)
WordRanges(s, a) ==
    IF s > Len(sentences) \/ a > Len(words) THEN <<>>
    ELSE LET b == LastWordOf(a, StrippedLength(sentences[s]))
         IN  <<(<<a, b>>)>> \o WordRanges(s + 1, b + 1)

\* ---- C36 ----
\* C36: the sentence objects are, in order, one per sentence reached while
\* words remain; sentence k takes the words from the one after the previous
\* sentence's last word (word 0 for the first) up to the first word at which
\* the accumulated stripped length reaches the sentence's stripped length (or
\* the last word), at least one word; its text is the space-join of those
\* words, its start the first word's start and its end the last word's end.
C36_AlignmentRanges ==
    al_pc = "aligned" =>
        LET ranges == WordRanges(1, 1)
        IN  /\ Len(sentence_objects) = Len(ranges)
            /\ \A k \in 1..Len(ranges) :
                  LET a == ranges[k][1]
                      b == ranges[k][2]
                      obj == sentence_objects[k]
                  IN  /\ a <= b
                      /\ a = IF k = 1 THEN 1 ELSE ranges[k - 1][2] + 1
                      /\ obj.text = Join([n \in 1..(b - a + 1) |-> words[a + n - 1].text])
                      /\ obj.start_time = words[a].start_time
                      /\ obj.end_time = words[b].end_time
            /\ current_word_idx = IF ranges = <<>> THEN 0 ELSE ranges[Len(ranges)][2]

\* a transcript whose first sentence took two words, whose second took the
\* rest, and whose third found no word left
C36_Witness ==
    /\ al_pc = "aligned"
    /\ Len(sentences) = 3
    /\ Len(sentence_objects) = 2
    /\ sentence_objects[1].end_time > sentence_objects[1].start_time + 5
    /\ current_word_idx = Len(words)

\* ------------------------------------------------------------------------
\* Chunk visibility (Spec)
\* ------------------------------------------------------------------------

\* ---- C39 ----
\* C39: with one job per document, in no reachable state does the chunks table
\* hold a chunk of a document whose job is pending or processing, and when the
\* invocation that claimed a job has ended in its failure handling, no chunk
\* of the job's document is stored.
C39_ChunksVisibleOnCompletion ==
    /\ \A j \in DOMAIN jobs :
           jobs[j].status \in {"pending", "processing"} =>
               ChunksOfDocument(jobs[j].document_id) = {}
    /\ \A w \in Workers :
           (workers[w].claimed /\ workers[w].pc \in {"raised", "raised_unsaved"}) =>
               ChunksOfDocument(jobs[workers[w].job_id].document_id) = {}

\* the invocation that claimed the job ended failed through a pipeline error,
\* another invocation of the job returned without a write, nothing is stored
C39_Witness ==
    \E w \in Workers :
        /\ workers[w].pc = "raised"
        /\ workers[w].claimed
        /\ workers[w].e \in {CollaboratorError, StoreError, EmbeddingMismatch}
        /\ jobs[workers[w].job_id].status = "failed"
        /\ chunk_table = <<>>
        /\ \E v \in Workers : v # w /\ workers[v].pc = "returned"

\* ------------------------------------------------------------------------
\* Two-leg fragments in the fusion (SpecSearch)
\* ------------------------------------------------------------------------
InBothLegs(cid) == cid \in LegIds(semantic_results) \cap LegIds(keyword_results)

InOneLeg(cid) ==
    /\ cid \in LegIds(semantic_results) \cup LegIds(keyword_results)
    /\ ~InBothLegs(cid)

\* ---- C40 ----
\* C40: after the fusion every fragment returned by both legs has a strictly
\* greater fused score than every fragment returned by one leg only, and in
\* the returned list no one-leg fragment stands before a two-leg fragment.
C40_TwoLegFragmentsFirst ==
    /\ Fused =>
          \A c \in DOMAIN scores, d \in DOMAIN scores :
              (InBothLegs(c) /\ InOneLeg(d)) => RatLess(scores[d], scores[c])
    /\ hs_pc = "returned" =>
          \A m \in 1..Len(hs_result), n \in 1..Len(hs_result) :
              (InOneLeg(hs_result[m].chunk_id) /\ InBothLegs(hs_result[n].chunk_id))
                  => n < m

\* the closest case: a fragment last in both pools (2/80) beside fragments
\* first in one pool only (1/61)
C40_Witness ==
    /\ hs_pc = "returned"
    /\ \E c \in DOMAIN scores :
          /\ RankIn(semantic_results, c) = FusionPool - 1
          /\ RankIn(keyword_results, c) = FusionPool - 1
          /\ RatEq(scores[c], <<2, RrfK + FusionPool>>)
    /\ \E d \in DOMAIN scores :
          /\ InOneLeg(d)
          /\ RatEq(scores[d], <<1, RrfK + 1>>)

====
